---- MODULE Spec2Model ----
(***************************************************************************)
(* A model of the merge-tab-groups service worker: the host browser's tabs *)
(* and tab groups, the settings storage, and the merge operations of       *)
(* background.js (explicit merge by name, merge of selected groups, live   *)
(* recompute-and-drain), one step per host call (every await of the code   *)
(* is a suspension point).                                                 *)
(*                                                                         *)
(* Two builds of the service worker are in the repository and both are     *)
(* modelled: "bg" is src/background.js, "p1" is the build at               *)
(* src/unnamed/part_001 lines 1-382. They share the merge code and differ  *)
(* in which tabs they discard and in their event handlers.                 *)
(***************************************************************************)
EXTENDS Integers, Sequences, FiniteSets, TLC

\* ------------------------------------------------------------ bounds
MaxGroups == 4
MaxTabs == 5
MaxFaults == 1
MaxOps == 2
MaxTimers == 3
MaxAttach == 3

GroupIds == 1..MaxGroups
TabIds == 1..MaxTabs
Windows == {1, 2}
Builds == {"bg", "p1"}

\* tab.groupId of a tab that is in no group (the code tests groupId >= 0)
NoGroup == -1

\* ------------------------------------------------------------ titles
\* A title is a sequence of characters; "A" and "W" are the upper-case
\* letters, " " the one whitespace character.

\* the absent targetTitle of MERGE_SELECTED (undefined)
Undef == <<"undefined">>

RECURSIVE TrimLeft(_)
TrimLeft(s) ==
    IF s = <<>> THEN s
    ELSE IF Head(s) = " " THEN TrimLeft(Tail(s)) ELSE s

RECURSIVE TrimRight(_)
TrimRight(s) ==
    IF s = <<>> THEN s
    ELSE IF s[Len(s)] = " " THEN TrimRight(SubSeq(s, 1, Len(s) - 1)) ELSE s

\* String.prototype.trim
Trim(s) == TrimRight(TrimLeft(s))

\* String.prototype.toLowerCase, on the alphabet of the model
ToLowerCase(s) ==
    [i \in 1..Len(s) |-> IF s[i] = "A" THEN "a" ELSE IF s[i] = "W" THEN "w" ELSE s[i]]

normalizeTitle(title, caseSensitive) ==
    IF caseSensitive THEN Trim(title) ELSE ToLowerCase(Trim(title))

\* ------------------------------------------------------------ sequences
Range(s) == { s[i] : i \in 1..Len(s) }

RECURSIVE SeqSum(_)
SeqSum(s) == IF s = <<>> THEN 0 ELSE Head(s) + SeqSum(Tail(s))

\* every ordering of a finite set, as sequences without repetition
RECURSIVE Perms(_)
Perms(S) ==
    IF S = {} THEN { <<>> }
    ELSE UNION { { <<x>> \o p : p \in Perms(S \ {x}) } : x \in S }

RECURSIVE Concat(_)
Concat(ss) == IF ss = <<>> THEN <<>> ELSE Head(ss) \o Concat(Tail(ss))

\* the distinct elements of s, each at its first occurrence (Map insertion order)
RECURSIVE Distinct(_)
Distinct(s) ==
    IF s = <<>> THEN <<>>
    ELSE LET rest == Distinct(SubSeq(s, 1, Len(s) - 1))
             x == s[Len(s)]
         IN IF x \in Range(rest) THEN rest ELSE Append(rest, x)

\* Array.prototype.sort with the comparator (a, b) => b.count - a.count:
\* a stable sort, descending by count. InsertDesc puts x behind every
\* element whose count is at least x.count.
RECURSIVE InsertDesc(_, _)
InsertDesc(sorted, x) ==
    IF sorted = <<>> THEN <<x>>
    ELSE IF Head(sorted).count >= x.count
         THEN <<Head(sorted)>> \o InsertDesc(Tail(sorted), x)
         ELSE <<x>> \o sorted

RECURSIVE InsertAsc(_, _)
InsertAsc(sorted, x) ==
    IF sorted = <<>> THEN <<x>>
    ELSE IF Head(sorted).count <= x.count
         THEN <<Head(sorted)>> \o InsertAsc(Tail(sorted), x)
         ELSE <<x>> \o sorted

RECURSIVE SortAscByCount(_)
SortAscByCount(s) ==
    IF s = <<>> THEN <<>>
    ELSE InsertAsc(SortAscByCount(SubSeq(s, 1, Len(s) - 1)), s[Len(s)])

RECURSIVE SortDescByCount(_)
SortDescByCount(s) ==
    IF s = <<>> THEN <<>>
    ELSE InsertDesc(SortDescByCount(SubSeq(s, 1, Len(s) - 1)), s[Len(s)])

\* bucket.sort((a, b) => a.id - b.id): ascending by id (ids are unique)
RECURSIVE InsertById(_, _)
InsertById(sorted, x) ==
    IF sorted = <<>> THEN <<x>>
    ELSE IF Head(sorted).id <= x.id
         THEN <<Head(sorted)>> \o InsertById(Tail(sorted), x)
         ELSE <<x>> \o sorted

RECURSIVE SortById(_)
SortById(s) ==
    IF s = <<>> THEN <<>>
    ELSE InsertById(SortById(SubSeq(s, 1, Len(s) - 1)), s[Len(s)])

\* ------------------------------------------------------------ state
VARIABLES
    build,       \* which build of the service worker is loaded
    tgroup,      \* host: tab id -> the id of its group, or NoGroup
    twin,        \* host: tab id -> its window
    tattr,       \* host: tab id -> [active, url, pendingUrl]
    gtitle,      \* host: group id -> title (of an existing group)
    gcollapsed,  \* host: group id -> collapsed flag
    stored,      \* chrome.storage.sync: the five settings
    ex,          \* the explicit operation in progress (MERGE_DUPLICATES / MERGE_SELECTED)
    req,         \* the host call made by the last step
    faults,      \* host calls that failed although their group existed
    attached,    \* the settings the attached listeners captured (maybeAttachAutoMergeListeners)
    lv,          \* the recomputeAndDrainDuplicates pass in progress
    rd,          \* the moveTabToDuplicateTargetIfAny call in progress
    dupTargets,  \* duplicateTargets: window -> Map of key -> { target, others }
    ops,         \* the operations started so far
    last,        \* the explicit operation that responded last, and the host as it left it
    dt,          \* debounceTimers and the timers that are armed (setTimeout / clearTimeout)
    al,          \* the listeners attached to host events and the references the worker holds
    er           \* the early-discard listener of src/background.js that is mid-redirect

host == <<tgroup, twin, tattr, gtitle, gcollapsed>>
liveVars == <<attached, lv, rd, dupTargets>>
front == <<dt, al, er>>
vars == <<build, tgroup, twin, tattr, gtitle, gcollapsed, stored, ex, req, faults,
          attached, lv, rd, dupTargets, ops, last, dt, al, er>>

\* ------------------------------------------------------------ host
TabsIn(g) == { t \in TabIds : tgroup[t] = g }
Exists(g) == g \in GroupIds /\ TabsIn(g) # {}
ExistingGroups == { g \in GroupIds : Exists(g) }
\* all tabs of a group are in one window, which is the group's window
GroupWin(g) == twin[CHOOSE t \in TabsIn(g) : TRUE]

\* a tabGroups.TabGroup as the host returns it
GroupRec(g) == [id |-> g, title |-> gtitle[g], windowId |-> GroupWin(g)]

\* chrome.tabs.query({ groupId }): the tabs of the group now (none when it is gone)
listTabsInGroup(g) == TabsIn(g)

\* the tabs leave their group and join none
MovedNowhere(tabs, target) == [t \in TabIds |-> IF t \in tabs THEN NoGroup ELSE tgroup[t]]

\* chrome.tabs.group({ tabIds, groupId }) that succeeded: the tabs join the
\* group (and its window); a group left without tabs ceases to exist.
MovedGroup(tabs, target) == [t \in TabIds |-> IF t \in tabs THEN target ELSE tgroup[t]]
MovedWin(tabs, target) == [t \in TabIds |-> IF t \in tabs THEN GroupWin(target) ELSE twin[t]]
TitleAfter(tg, titles) ==
    [g \in GroupIds |-> IF \E t \in TabIds : tg[t] = g THEN titles[g] ELSE <<>>]
CollapsedAfter(tg, coll) ==
    [g \in GroupIds |-> IF \E t \in TabIds : tg[t] = g THEN coll[g] ELSE FALSE]

HostMove(tabs, target) ==
    /\ tgroup' = MovedGroup(tabs, target)
    /\ twin' = MovedWin(tabs, target)
    /\ gtitle' = TitleAfter(MovedGroup(tabs, target), gtitle)
    /\ gcollapsed' = CollapsedAfter(MovedGroup(tabs, target), gcollapsed)
    /\ UNCHANGED tattr

\* chrome.tabGroups.update(id, { title, collapsed }) that succeeded
HostUpdate(g, title, collapsed) ==
    /\ gtitle' = [gtitle EXCEPT ![g] = title]
    /\ gcollapsed' = [gcollapsed EXCEPT ![g] = collapsed]
    /\ UNCHANGED <<tgroup, twin, tattr>>

\* The outcomes of a host call on group g: it fails when g is gone, and it may
\* fail for a reason of the host's own (a transient failure), at most
\* MaxFaults times in a run.
CallOutcomes(g) ==
    IF ~Exists(g) THEN {FALSE}
    ELSE IF faults < MaxFaults THEN {TRUE, FALSE} ELSE {TRUE}
FaultsAfter(g, ok) == IF ~ok /\ Exists(g) THEN faults + 1 ELSE faults

\* ------------------------------------------------------------ merge helpers
\* The buckets of a listing: a Map from normalized title to the groups with
\* that key, in insertion order; unnamed groups are skipped unless includeUnnamed.
RECURSIVE BucketsOf(_, _, _)
BucketsOf(groups, caseSensitive, includeUnnamed) ==
    IF groups = <<>> THEN <<>>
    ELSE LET acc == BucketsOf(SubSeq(groups, 1, Len(groups) - 1), caseSensitive, includeUnnamed)
             g == groups[Len(groups)]
             key == normalizeTitle(g.title, caseSensitive)
         IN IF ~includeUnnamed /\ key = <<>> THEN acc
            ELSE IF \E i \in 1..Len(acc) : acc[i].key = key
                 THEN LET i == CHOOSE j \in 1..Len(acc) : acc[j].key = key
                      IN [acc EXCEPT ![i].groups = Append(@, g)]
                 ELSE Append(acc, [key |-> key, groups |-> <<g>>])

\* every bucket, whatever its size
AllBuckets(groups, caseSensitive, includeUnnamed) == BucketsOf(groups, caseSensitive, includeUnnamed)

\* the buckets of at least two groups, the unnamed ones always among them
BigBucketsUnnamed(groups, caseSensitive, includeUnnamed) ==
    SelectSeq(BucketsOf(groups, caseSensitive, TRUE), LAMBDA b : Len(b.groups) >= 2)

\* the buckets a pass works on: those with at least two groups
BigBuckets(groups, caseSensitive, includeUnnamed) ==
    SelectSeq(BucketsOf(groups, caseSensitive, includeUnnamed), LAMBDA b : Len(b.groups) >= 2)

\* the listed groups of every window
OfEveryWindow(listing, w) == listing
\* byWindow.get(windowId): the listed groups of window w, in listing order
OfWindow(listing, w) == SelectSeq(listing, LAMBDA g : g.windowId = w)

\* mergeDuplicatesByName's loops over byWindow and buckets, as a work list
DupWork(listing, caseSensitive, includeUnnamed) ==
    LET wins == Distinct([i \in 1..Len(listing) |-> listing[i].windowId])
        ofWin(w) == OfWindow(listing, w)
        items(w) == LET bs == BigBuckets(ofWin(w), caseSensitive, includeUnnamed)
                    IN [i \in 1..Len(bs) |-> [windowId |-> w, key |-> bs[i].key, groups |-> bs[i].groups]]
    IN Concat([i \in 1..Len(wins) |-> items(wins[i])])

\* counts of a bucket, as listTabsInGroup returns them now
CountsOf(groups) ==
    [i \in 1..Len(groups) |-> [group |-> groups[i], count |-> Cardinality(listTabsInGroup(groups[i].id))]]

\* by-size policy: counts.sort((a, b) => b.count - a.count); counts[0] is the target
BySize(counts) == SortDescByCount(counts)

\* the title mergeDuplicatesByName sets: the most common non-empty trimmed title
TitleFirstListed(groups, targetTitle) ==
    LET titles == SelectSeq([i \in 1..Len(groups) |-> Trim(groups[i].title)], LAMBDA t : t # <<>>)
    IN IF Len(titles) > 0 THEN titles[1] ELSE targetTitle

TitleToSet(groups, targetTitle) ==
    LET titles == SelectSeq([i \in 1..Len(groups) |-> Trim(groups[i].title)], LAMBDA t : t # <<>>)
        freq(t) == Cardinality({ i \in 1..Len(titles) : titles[i] = t })
        sorted == SortDescByCount([i \in 1..Len(titles) |-> [title |-> titles[i], count |-> freq(titles[i])]])
    IN IF Len(titles) > 0 THEN sorted[1].title ELSE targetTitle

\* ------------------------------------------------------------ discards
\* part_001's shouldAvoidDiscard(tab)
shouldAvoidDiscard(a) ==
    \/ a.active
    \/ a.url = "" \/ a.url = "about:blank" \/ a.pendingUrl # ""

\* the ids a drain or pre-discard passes to safeDiscardTabs for listed tabs:
\* src/background.js filters on !t.active, part_001 on !shouldAvoidDiscard(t)
DiscardIds(tabs) ==
    IF build = "bg" THEN { t \in tabs : ~tattr[t].active }
    ELSE { t \in tabs : ~shouldAvoidDiscard(tattr[t]) }

\* ------------------------------------------------------------ debounce timers
\* Time is counted in units of 80 ms: the delay of onGroupCreated is one unit,
\* the default delay of debounceByWindow five.
DelayCreated == 1
DelayDefault == 5
NoTimer == 0

\* a timer of setTimeout: its id, the window and the settings of the closure
\* it will run ("recompute" for a debounce timer of window w, "discard" for the
\* discard of group g that onGroupCreated defers), and the time left
Timer(id, kind, w, g, c, left) ==
    [id |-> id, kind |-> kind, w |-> w, g |-> g, c |-> c, left |-> left]

\* the history of the change events of a window: the events of the burst in
\* progress, the passes started since it began, the time since the last
\* event and the delay that event asked for
NoBurst == [n |-> 0, runs |-> 0, age |-> 0, need |-> 0]

IdleDt ==
    [ armed |-> {}, slot |-> [w \in Windows |-> NoTimer], made |-> 0,
      burst |-> [w \in Windows |-> NoBurst] ]

\* the armed timers, none cancelled
KeepArmed(armed, id) == armed
\* every armed debounce timer is cancelled, whatever its window
ClearEvery(armed, id) == { x \in armed : x.kind # "recompute" }
\* clearTimeout(id): no effect when the timer has fired or id is undefined
clearTimeout(armed, id) == { x \in armed : x.id # id }

ArmedFor(d, w) == { x \in d.armed : x.kind = "recompute" /\ x.w = w }

\* debounceByWindow(windowId, fn, delay) on the timers d; c is what fn captured
debounceByWindow(d, w, c, delay) ==
    [d EXCEPT !.armed = clearTimeout(d.armed, d.slot[w])
                            \cup {Timer(d.made + 1, "recompute", w, NoGroup, c, delay)},
              !.slot[w] = d.made + 1,
              !.made = d.made + 1]

\* a change event of window w arrived at a listener that schedules: the burst
\* goes on when a timer of the window is armed, else a new burst begins
Arrived(d, w, delay) ==
    [d EXCEPT !.burst[w] = IF ArmedFor(d, w) # {}
                           THEN [n |-> IF @.n < MaxTimers THEN @.n + 1 ELSE @.n,
                                 runs |-> @.runs, age |-> 0, need |-> delay]
                           ELSE [n |-> 1, runs |-> 0, age |-> 0, need |-> delay]]

\* ------------------------------------------------------------ listeners
\* the host events the worker listens to
AutoEvents ==
    {"groupCreated", "groupUpdated", "groupMoved", "groupRemoved",
     "tabUpdated", "tabMoved", "tabDetached", "tabAttached"}
EarlyEvents == {"tabCreated", "tabUpdated"}
NoRef == 0

\* a listener: the host event, the reference it is held by ("auto" for a
\* member of autoHandlerRef, "early" for tabCreatedHandlerRef and
\* tabUpdatedHandlerRef) and the invocation that made the closure
Listener(event, role, gen) == [event |-> event, role |-> role, gen |-> gen]

NoCap ==
    [enabled |-> FALSE, caseSensitive |-> FALSE, includeUnnamed |-> FALSE,
     fastMerge |-> FALSE, keepCollapsed |-> FALSE]

AutoListeners(gen) == { Listener(e, "auto", gen) : e \in AutoEvents }
EarlyListeners(gen) == { Listener(e, "early", gen) : e \in EarlyEvents }

\* the early-discard listeners are attached whatever fastMerge is
EarlyAlways(c) == build = "bg"
\* src/background.js attaches the early-discard listeners when fastMerge is
\* on; part_001 attaches none
HasEarly(c) == build = "bg" /\ c.fastMerge

\* what an invocation of maybeAttachAutoMergeListeners reads from storage
Captured(st) ==
    [enabled |-> st.autoMerge, caseSensitive |-> st.caseSensitive,
     includeUnnamed |-> st.includeUnnamed, fastMerge |-> st.fastMerge,
     keepCollapsed |-> st.keepCollapsed]

\* the previous listeners are left attached
RemoveNothing(a) == a.on

\* removeListener on the members of autoHandlerRef, when tabGroupHandlersAttached
RemoveAuto(a) ==
    IF a.flag /\ a.auto # NoRef THEN a.on \ AutoListeners(a.auto) ELSE a.on

\* removeListener on tabCreatedHandlerRef and tabUpdatedHandlerRef, when set
RemoveEarly(on, a) ==
    (on \ (IF a.created # NoRef THEN {Listener("tabCreated", "early", a.created)} ELSE {}))
        \ (IF a.updated # NoRef THEN {Listener("tabUpdated", "early", a.updated)} ELSE {})

\* maybeAttachAutoMergeListeners from the return of its storage read to its
\* end, one synchronous block: a is the listener state, st the settings read
maybeAttachAutoMergeListeners(a, st) ==
    LET gen == a.made + 1
        c == Captured(st)
        fresh == RemoveAuto(a) \cup AutoListeners(gen)
        early == RemoveEarly(fresh, a)
    IN [ on |-> IF HasEarly(c) THEN early \cup EarlyListeners(gen) ELSE early,
         auto |-> gen, flag |-> TRUE,
         created |-> IF HasEarly(c) THEN gen ELSE NoRef,
         updated |-> IF HasEarly(c) THEN gen ELSE NoRef,
         cap |-> [a.cap EXCEPT ![gen] = c],
         calls |-> IF a.calls > 0 THEN a.calls - 1 ELSE 0,
         made |-> gen, over |-> a.over ]

\* the worker before its first attachment: no listener, no reference; calls
\* counts the invocations awaiting their storage read, over tells whether
\* one was ever called while another was waiting
NoListeners ==
    [ on |-> {}, auto |-> NoRef, flag |-> FALSE, created |-> NoRef, updated |-> NoRef,
      cap |-> [g \in 1..MaxAttach |-> NoCap], calls |-> 0, made |-> 0, over |-> FALSE ]

RECURSIVE Ascending(_)
Ascending(S) ==
    IF S = {} THEN <<>>
    ELSE LET m == CHOOSE x \in S : \A y \in S : x <= y
         IN <<m>> \o Ascending(S \ {m})

\* the closures listening to a host event, in the order they were attached
GensOn(event, role) ==
    Ascending({ l.gen : l \in { x \in al.on : x.event = event /\ x.role = role } })

\* handler(windowId): nothing when auto-merge was off at attachment
handler(d, c, w) ==
    IF c.enabled THEN debounceByWindow(d, w, c, DelayDefault) ELSE d

\* autoHandlerRef.onGroupCreated: the 80 ms debounce and, in
\* src/background.js with fastMerge, the deferred discard of the new group
onGroupCreated(d, c, w, g) ==
    LET d1 == IF c.enabled THEN debounceByWindow(d, w, c, DelayCreated) ELSE d
    IN IF build = "bg" /\ c.fastMerge
       THEN [d1 EXCEPT !.armed = @ \cup {Timer(d1.made + 1, "discard", w, g, c, DelayCreated)},
                       !.made = d1.made + 1]
       ELSE d1

RECURSIVE Dispatch(_, _, _, _, _)
\* the host calls every listener of the event
Dispatch(d, gens, event, w, g) ==
    IF gens = <<>> THEN d
    ELSE LET c == al.cap[Head(gens)]
         IN Dispatch(IF event = "groupCreated" THEN onGroupCreated(d, c, w, g) ELSE handler(d, c, w),
                     Tail(gens), event, w, g)

Schedules(gens) == \E i \in 1..Len(gens) : al.cap[gens[i]].enabled

\* the timers the listeners of an event may take are left to take
Room(gens, event) ==
    dt.made + Len(gens) * (IF event = "groupCreated" THEN 2 ELSE 1) <= MaxTimers

\* ------------------------------------------------------------ requests
NoReq == [kind |-> "none", by |-> "none", tabs |-> {}, group |-> NoGroup, ok |-> TRUE]
Req(kind, by, tabs, group, ok) == [kind |-> kind, by |-> by, tabs |-> tabs, group |-> group, ok |-> ok]
DiscardReq(by, ids) == IF ids = {} THEN NoReq ELSE Req("discard", by, ids, NoGroup, TRUE)

\* ------------------------------------------------------------ explicit operations
NoRec == [id |-> NoGroup, title |-> <<>>, windowId |-> 0]
NoSnap == [tg |-> <<>>, tw |-> <<>>, title |-> <<>>, coll |-> <<>>]
Snap == [tg |-> tgroup, tw |-> twin, title |-> gtitle, coll |-> gcollapsed]

NoLast ==
    [op |-> "none", scope |-> "none", cw |-> 0, cs |-> FALSE, iu |-> FALSE, fm |-> FALSE,
     kc |-> FALSE, clean |-> FALSE, results |-> <<>>, snap |-> NoSnap,
     type |-> "", ok |-> FALSE, err |-> ""]

\* the message types the router knows
KnownTypes == {"LIST_GROUPS", "MERGE_DUPLICATES", "MERGE_SELECTED", "GET_SETTINGS", "SET_SETTINGS"}

\* the last branch taken for every type that matches none
RouteToLast(type) == IF type \in KnownTypes THEN type ELSE "SET_SETTINGS"

\* the if / else-if chain of the router over msg.type
Route(type) == IF type \in KnownTypes THEN type ELSE "unknown"

IdleEx ==
    [ op |-> "idle", pc |-> "idle", scope |-> "none", cw |-> 0,
      cs |-> FALSE, iu |-> FALSE, fm |-> FALSE, kc |-> FALSE,
      work |-> <<>>, bucket |-> <<>>, counts |-> <<>>, target |-> NoRec, sources |-> <<>>,
      others |-> <<>>, tabIds |-> {}, results |-> <<>>, ok |-> TRUE, err |-> "", moves |-> 0,
      clean |-> TRUE, pre |-> NoSnap, isArray |-> TRUE, ids |-> <<>>, targetTitle |-> Undef,
      finalTitle |-> <<>>, mergedCount |-> 0,
      pending |-> <<>>, next |-> "idle", listed |-> <<>>, asked |-> <<>> ]

Scopes == {"currentWindow", "allWindows"}

\* the MERGE_DUPLICATES message (and the keyboard command): the settings are
\* read from storage, as the popup and the command pass them
MergeDuplicatesRequest(scope) ==
    /\ ops < MaxOps
    /\ ops' = ops + 1
    /\ ex.op = "idle"
    /\ ex' = [IdleEx EXCEPT !.op = "dup", !.pc = "list", !.scope = scope,
                            !.cs = stored.caseSensitive, !.iu = stored.includeUnnamed,
                            !.fm = stored.fastMerge, !.kc = stored.keepCollapsed]
    /\ req' = Req("settings", "dup", {}, NoGroup, TRUE)
    /\ UNCHANGED <<front, build, host, stored, faults, liveVars, last>>

\* listGroups(scope): chrome.windows.getCurrent and chrome.tabGroups.query, then
\* the partition by window and the buckets (no await in between)
DupList(cw, order) ==
    /\ ex.op = "dup" /\ ex.pc = "list"
    /\ LET listing == [i \in 1..Len(order) |-> GroupRec(order[i])]
           work == DupWork(listing, ex.cs, ex.iu)
       IN ex' = [ex EXCEPT !.cw = cw, !.work = work, !.pre = Snap,
                           !.pc = IF work = <<>> THEN "done" ELSE "count"]
    /\ req' = Req("list", "dup", {}, NoGroup, TRUE)
    /\ UNCHANGED <<front, build, host, stored, faults, liveVars, ops, last>>

DupListStep ==
    \E cw \in Windows :
        \E order \in Perms({ g \in ExistingGroups : ex.scope = "allWindows" \/ GroupWin(g) = cw }) :
            DupList(cw, order)

\* where the operation goes on once mergeGroupSet has handled its last source
AfterDrain(op) == IF op = "dup" THEN "update" ELSE "done"
\* mergeGroupSet's loop: the next source, or the end of the loop
StopAfterFirst(e) == AfterDrain(e.op)
NextSource(e) == IF Len(e.others) <= 1 THEN AfterDrain(e.op) ELSE "drain"
DrainEntry(op, others) == IF others = <<>> THEN AfterDrain(op) ELSE "drain"

\* no source is taken for the target
NeverSelf(gid, target) == FALSE
\* mergeGroupSet's `if (gid === targetGroupId) continue` and
\* drainGroupToTarget's `if (targetGroupId === sourceGroupId) return`
SelfMerge(gid, target) == gid = target

\* a listing of mergeGroupSet: the source, its tabs, and whether its discards
\* were all accepted
Listing(gid, tabs, dok) == [gid |-> gid, tabs |-> tabs, dok |-> dok]
\* a chrome.tabs.group call: the tab ids and the target
Move(tabs, target) == [tabs |-> tabs, target |-> target]

\* a rejected discard makes mergeGroupSet pass over the source
ListedUnlessRejected(e, gid, tabs, dok) ==
    IF dok THEN [e EXCEPT !.tabIds = tabs, !.pc = "move", !.listed = Append(@, Listing(gid, tabs, dok))]
    ELSE [e EXCEPT !.others = Tail(@), !.pc = NextSource(e), !.listed = Append(@, Listing(gid, tabs, dok))]

\* mergeGroupSet has listed a source with tabs and safeDiscardTabs has
\* settled, whatever its outcome: the move is next
Listed(e, gid, tabs, dok) ==
    [e EXCEPT !.tabIds = tabs, !.pc = "move", !.listed = Append(@, Listing(gid, tabs, dok))]

\* the loop goes on to its next step without waiting for the move
NotAwaited(next) == next
\* await chrome.tabs.group(...): the loop waits for the call to settle before
\* its next step
Awaited(next) == "moving"

\* the other groups of a sorted count list
OthersOf(sorted) == [i \in 1..(Len(sorted) - 1) |-> sorted[i + 1].group.id]

\* Promise.all over listTabsInGroup, the sort by count, target and others
DupCount ==
    /\ ex.op = "dup" /\ ex.pc = "count"
    /\ LET bucket == Head(ex.work).groups
           counts == CountsOf(bucket)
           sorted == BySize(counts)
       IN ex' = [ex EXCEPT !.bucket = bucket, !.counts = counts,
                           !.target = sorted[1].group,
                           !.sources = OthersOf(sorted), !.others = OthersOf(sorted),
                           !.listed = <<>>, !.asked = <<>>,
                           !.pc = IF ex.fm THEN "prediscard" ELSE DrainEntry("dup", OthersOf(sorted))]
    /\ req' = Req("list", "dup", {}, NoGroup, TRUE)
    /\ UNCHANGED <<front, build, host, stored, faults, liveVars, ops, last>>

\* discardNonActiveTabsInGroup(target.id), before the tabs are moved
PreDiscard ==
    /\ ex.op \in {"dup", "sel"} /\ ex.pc = "prediscard"
    /\ ex' = [ex EXCEPT !.pc = DrainEntry(ex.op, ex.others)]
    /\ req' = DiscardReq(ex.op, DiscardIds(listTabsInGroup(ex.target.id)))
    /\ UNCHANGED <<front, build, host, stored, faults, liveVars, ops, last>>


\* mergeGroupSet, one source: the self-merge guard, listTabsInGroup(gid) and,
\* with fastMerge, the discards of the listed tabs, which safeDiscardTabs
\* lets settle whether the host accepts them or not
DrainList ==
    /\ ex.op \in {"dup", "sel"} /\ ex.pc = "drain"
    /\ LET gid == Head(ex.others)
           tabs == listTabsInGroup(gid)
           ids == IF ex.fm THEN DiscardIds(tabs) ELSE {}
       IN IF SelfMerge(gid, ex.target.id)
          THEN /\ ex' = [ex EXCEPT !.others = Tail(@), !.pc = NextSource(ex)]
               /\ req' = NoReq
          ELSE IF tabs = {}
          THEN /\ ex' = [ex EXCEPT !.others = Tail(@), !.pc = NextSource(ex),
                                   !.listed = Append(@, Listing(gid, tabs, TRUE))]
               /\ req' = Req("list", ex.op, {}, gid, TRUE)
          ELSE \E dok \in (IF ids = {} THEN {TRUE} ELSE BOOLEAN) :
               /\ ex' = Listed(ex, gid, tabs, dok)
               /\ req' = IF ids # {}
                         THEN Req("discard", ex.op, ids, NoGroup, dok)
                         ELSE Req("list", ex.op, {}, gid, TRUE)
    /\ UNCHANGED <<front, build, host, stored, faults, liveVars, ops, last>>

\* mergeGroupSet, one source: chrome.tabs.group({ tabIds, groupId: target })
\* is called and awaited
DrainIssue ==
    /\ ex.op \in {"dup", "sel"} /\ ex.pc = "move"
    /\ ex' = [ex EXCEPT !.pending = Append(@, Move(ex.tabIds, ex.target.id)),
                        !.asked = Append(@, Move(ex.tabIds, ex.target.id)),
                        !.others = Tail(@), !.tabIds = {},
                        !.next = NextSource(ex), !.pc = Awaited(NextSource(ex))]
    /\ req' = NoReq
    /\ UNCHANGED <<front, build, host, stored, faults, liveVars, ops, last>>

\* the host settles the oldest chrome.tabs.group call of the pass; a failure
\* is caught and ignored, and the loop goes on if it was waiting
DrainMove ==
    /\ ex.op \in {"dup", "sel"} /\ ex.pending # <<>>
    /\ LET m == Head(ex.pending)
       IN \E ok \in CallOutcomes(m.target) :
            /\ IF ok THEN HostMove(m.tabs, m.target) ELSE UNCHANGED host
            /\ faults' = FaultsAfter(m.target, ok)
            /\ req' = Req("move", ex.op, m.tabs, m.target, ok)
            /\ ex' = [ex EXCEPT !.pending = Tail(@), !.moves = @ + 1, !.clean = @ /\ ok,
                                !.pc = IF @ = "moving" THEN ex.next ELSE @]
    /\ UNCHANGED <<front, build, stored, liveVars, ops, last>>

\* the final title of the bucket and chrome.tabGroups.update on the target; a
\* failure of the update is not caught and ends the pass
DupUpdate ==
    /\ ex.op = "dup" /\ ex.pc = "update"
    /\ LET title == TitleToSet(ex.bucket, ex.target.title)
       IN \E ok \in CallOutcomes(ex.target.id) :
           /\ IF ok THEN HostUpdate(ex.target.id, title, ex.kc) ELSE UNCHANGED host
           /\ faults' = FaultsAfter(ex.target.id, ok)
           /\ req' = Req("update", "dup", {}, ex.target.id, ok)
           /\ ex' = IF ok
                    THEN [ex EXCEPT !.finalTitle = title,
                                    !.results = Append(@, [windowId |-> Head(ex.work).windowId,
                                                           title |-> title,
                                                           mergedInto |-> ex.target.id,
                                                           mergedCount |-> Len(ex.bucket) - 1]),
                                    !.work = Tail(@),
                                    !.pc = IF Len(ex.work) <= 1 THEN "done" ELSE "count"]
                    ELSE [ex EXCEPT !.ok = FALSE, !.err = "host", !.clean = FALSE, !.pc = "done"]
    /\ UNCHANGED <<front, build, stored, liveVars, ops, last>>

\* sendResponse: the operation is over
Respond ==
    /\ ex.op \in {"dup", "sel"} /\ ex.pc = "done"
    /\ ex' = IdleEx
    /\ req' = NoReq
    /\ last' = [op |-> ex.op, scope |-> ex.scope, cw |-> ex.cw, cs |-> ex.cs, iu |-> ex.iu,
                fm |-> ex.fm, kc |-> ex.kc, clean |-> ex.ok /\ ex.clean,
                results |-> ex.results, snap |-> Snap,
                type |-> IF ex.op = "dup" THEN "MERGE_DUPLICATES" ELSE "MERGE_SELECTED",
                ok |-> ex.ok, err |-> ex.err]
    /\ UNCHANGED <<front, build, host, stored, faults, liveVars, ops>>

\* ------------------------------------------------------------ merge selected
\* a groupIds argument: an array of ids, or a value that is no array but has
\* items all the same
ListOf(items) == [isArray |-> TRUE, items |-> items]
NotAList(items) == [isArray |-> FALSE, items |-> items]

\* a selection of at most one id is refused
TooFewIsNone(groupIds) == Len(groupIds.items) < 1
\* !Array.isArray(groupIds) || groupIds.length < 2
TooFew(groupIds) == ~groupIds.isArray \/ Len(groupIds.items) < 2

\* the one-window test that never refuses
SpansNever(byWindow) == FALSE
\* byWindow.size > 1
SpansWindows(byWindow) == Cardinality(byWindow) > 1

\* the MERGE_SELECTED message: mergeSelectedGroups({ targetTitle, groupIds });
\* fewer than two ids are refused before any host call
MergeSelectedRequest(groupIds, targetTitle) ==
    /\ ops < MaxOps
    /\ ops' = ops + 1
    /\ ex.op = "idle"
    /\ LET e == [IdleEx EXCEPT !.op = "sel", !.isArray = groupIds.isArray, !.ids = groupIds.items,
                               !.targetTitle = targetTitle, !.pre = Snap]
       IN ex' = IF TooFew(groupIds)
                THEN [e EXCEPT !.pc = "done", !.ok = FALSE, !.err = "Select at least two groups."]
                ELSE [e EXCEPT !.pc = "get"]
    /\ req' = NoReq
    /\ UNCHANGED <<front, build, host, stored, faults, liveVars, last>>

\* Promise.all over chrome.tabGroups.get (which rejects for a group that is
\* gone) and the one-window test
SelGet ==
    /\ ex.op = "sel" /\ ex.pc = "get"
    /\ LET allThere == \A i \in 1..Len(ex.ids) : Exists(ex.ids[i])
           details == [i \in 1..Len(ex.ids) |-> GroupRec(ex.ids[i])]
           byWindow == { GroupWin(ex.ids[i]) : i \in 1..Len(ex.ids) }
       IN /\ ex' = IF ~allThere
                   THEN [ex EXCEPT !.ok = FALSE, !.err = "host", !.pc = "done"]
                   ELSE IF SpansWindows(byWindow)
                   THEN [ex EXCEPT !.ok = FALSE, !.pc = "done",
                                   !.err = "For now, merge groups from one window at a time."]
                   ELSE [ex EXCEPT !.bucket = details, !.pc = "selcount"]
          /\ req' = Req("get", "sel", {}, NoGroup, allThere)
    /\ UNCHANGED <<front, build, host, stored, faults, liveVars, ops, last>>

\* the title given, or the target's, as it stands
FinalTitleUntrimmed(targetTitle, title) == IF targetTitle = Undef THEN title ELSE targetTitle

\* (targetTitle ?? target.title ?? "").trim()
FinalTitle(targetTitle, title) == Trim(IF targetTitle = Undef THEN title ELSE targetTitle)

\* Promise.all over listTabsInGroup, the sort by count, target and others
SelCount ==
    /\ ex.op = "sel" /\ ex.pc = "selcount"
    /\ LET counts == CountsOf(ex.bucket)
           sorted == BySize(counts)
       IN ex' = [ex EXCEPT !.counts = counts, !.target = sorted[1].group,
                           !.sources = OthersOf(sorted), !.others = OthersOf(sorted),
                           !.mergedCount = Len(sorted) - 1,
                           !.finalTitle = FinalTitle(ex.targetTitle, sorted[1].group.title),
                           !.pc = "selsettings"]
    /\ req' = Req("list", "sel", {}, NoGroup, TRUE)
    /\ UNCHANGED <<front, build, host, stored, faults, liveVars, ops, last>>

\* chrome.storage.sync.get(["keepCollapsed", "fastMerge"])
SelSettings ==
    /\ ex.op = "sel" /\ ex.pc = "selsettings"
    /\ ex' = [ex EXCEPT !.kc = stored.keepCollapsed, !.fm = stored.fastMerge, !.pc = "selupdate"]
    /\ req' = Req("settings", "sel", {}, NoGroup, TRUE)
    /\ UNCHANGED <<front, build, host, stored, faults, liveVars, ops, last>>

\* chrome.tabGroups.update(target.id, { title: finalTitle, collapsed }), not caught
SelUpdate ==
    /\ ex.op = "sel" /\ ex.pc = "selupdate"
    /\ \E ok \in CallOutcomes(ex.target.id) :
        /\ IF ok THEN HostUpdate(ex.target.id, ex.finalTitle, ex.kc) ELSE UNCHANGED host
        /\ faults' = FaultsAfter(ex.target.id, ok)
        /\ req' = Req("update", "sel", {}, ex.target.id, ok)
        /\ ex' = IF ok
                 THEN [ex EXCEPT !.pc = IF ex.fm THEN "prediscard" ELSE DrainEntry("sel", ex.others)]
                 ELSE [ex EXCEPT !.ok = FALSE, !.err = "host", !.clean = FALSE, !.pc = "done"]
    /\ UNCHANGED <<front, build, stored, liveVars, ops, last>>

\* ------------------------------------------------------------ live recompute
IdleLv ==
    [ pc |-> "idle", w |-> 0, cs |-> FALSE, iu |-> FALSE, fm |-> FALSE, kc |-> FALSE,
      listing |-> <<>>, work |-> <<>>, bucket |-> <<>>, target |-> NoRec, sources |-> <<>>,
      others |-> <<>>, tabIds |-> {}, index |-> {}, ok |-> TRUE, moves |-> 0, clean |-> TRUE, pre |-> NoSnap,
      pending |-> <<>>, next |-> "idle" ]

\* listing order as the target policy: no sort at all
Unsorted(groups) == groups

\* by-id policy: bucket.sort((a, b) => a.id - b.id); bucket[0] is the target
ById(groups) == SortById(groups)

\* recomputeAndDrainDuplicates's buckets of at least two groups, each sorted
LiveWork(listing, caseSensitive, includeUnnamed) ==
    LET bs == BigBuckets(listing, caseSensitive, includeUnnamed)
    IN [i \in 1..Len(bs) |-> [key |-> bs[i].key, listed |-> bs[i].groups, groups |-> ById(bs[i].groups)]]

\* the whole bucket as the source list
EntryOfAll(item) ==
    [key |-> item.key, target |-> item.groups[1].id,
     others |-> [i \in 1..Len(item.groups) |-> item.groups[i].id]]

\* index.set(key, { target: target.id, others: others.map(g => g.id) })
IndexEntry(item) ==
    [key |-> item.key, target |-> item.groups[1].id,
     others |-> [i \in 1..(Len(item.groups) - 1) |-> item.groups[i + 1].id]]

\* the pass at the start of the bucket that heads its work list
EnterBucket(l) ==
    LET item == Head(l.work)
    IN [l EXCEPT !.bucket = item.listed, !.target = item.groups[1],
                 !.sources = IndexEntry(item).others, !.others = IndexEntry(item).others,
                 !.index = @ \cup {IndexEntry(item)}, !.pc = "drain"]

\* the debounce timer of window w fires: the closure the listeners armed runs
\* recomputeAndDrainDuplicates with the settings captured when they were attached
LiveFire(w) ==
    /\ ops < MaxOps
    /\ ops' = ops + 1
    /\ lv.pc = "idle"
    /\ attached.enabled
    /\ lv' = [IdleLv EXCEPT !.pc = "list", !.w = w, !.cs = attached.caseSensitive,
                            !.iu = attached.includeUnnamed, !.fm = attached.fastMerge,
                            !.kc = attached.keepCollapsed]
    /\ req' = NoReq
    /\ UNCHANGED <<front, build, host, stored, faults, ex, attached, rd, dupTargets, last>>

\* listGroups("currentWindow", windowId), the buckets, and the first bucket's
\* sort and index entry; with no bucket to merge the index is stored at once
LiveList(order) ==
    /\ lv.pc = "list"
    /\ \E listing \in {[i \in 1..Len(order) |-> GroupRec(order[i])]} :
       \E l \in {[lv EXCEPT !.listing = listing, !.work = LiveWork(listing, lv.cs, lv.iu),
                            !.pre = Snap]} :
          IF l.work = <<>>
          THEN /\ lv' = [l EXCEPT !.pc = "done"]
               /\ dupTargets' = [dupTargets EXCEPT ![lv.w] = {}]
          ELSE /\ lv' = EnterBucket(l)
               /\ UNCHANGED dupTargets
    /\ req' = Req("list", "live", {}, NoGroup, TRUE)
    /\ UNCHANGED <<front, build, host, stored, faults, ex, attached, rd, ops, last>>

LiveListStep ==
    \E order \in Perms({ g \in ExistingGroups : GroupWin(g) = lv.w }) : LiveList(order)

\* the loop over the sources ends after the first
LiveFirstOnly(l) == "update"
\* for (const src of others): the next source, or the update after the last
LiveNextSource(l) == IF Len(l.others) <= 1 THEN "update" ELSE "drain"

\* drainGroupToTarget, one source: listTabsInGroup(source), nothing more when
\* it has no tabs, and with fastMerge the discards of the listed tabs
LiveDrainList ==
    /\ lv.pc = "drain"
    /\ LET gid == Head(lv.others)
           tabs == listTabsInGroup(gid)
       IN IF SelfMerge(gid, lv.target.id) \/ tabs = {}
          THEN /\ lv' = [lv EXCEPT !.others = Tail(@), !.pc = LiveNextSource(lv)]
               /\ req' = IF SelfMerge(gid, lv.target.id) THEN NoReq
                         ELSE Req("list", "live", {}, gid, TRUE)
          ELSE /\ lv' = [lv EXCEPT !.tabIds = tabs, !.pc = "move"]
               /\ req' = IF lv.fm /\ DiscardIds(tabs) # {}
                         THEN DiscardReq("live", DiscardIds(tabs))
                         ELSE Req("list", "live", {}, gid, TRUE)
    /\ UNCHANGED <<front, build, host, stored, faults, ex, attached, rd, dupTargets, ops, last>>

\* drainGroupToTarget, one source: chrome.tabs.group is called and awaited,
\* and so is drainGroupToTarget by the loop over the sources
LiveDrainIssue ==
    /\ lv.pc = "move"
    /\ lv' = [lv EXCEPT !.pending = Append(@, Move(lv.tabIds, lv.target.id)),
                        !.others = Tail(@), !.tabIds = {},
                        !.next = LiveNextSource(lv), !.pc = Awaited(LiveNextSource(lv))]
    /\ req' = NoReq
    /\ UNCHANGED <<front, build, host, stored, faults, ex, attached, rd, dupTargets, ops, last>>

\* the host settles the oldest chrome.tabs.group call of the pass; a failure
\* is ignored
LiveDrainMove ==
    /\ lv.pending # <<>>
    /\ LET m == Head(lv.pending)
       IN \E ok \in CallOutcomes(m.target) :
            /\ IF ok THEN HostMove(m.tabs, m.target) ELSE UNCHANGED host
            /\ faults' = FaultsAfter(m.target, ok)
            /\ req' = Req("move", "live", m.tabs, m.target, ok)
            /\ lv' = [lv EXCEPT !.pending = Tail(@), !.moves = @ + 1, !.clean = @ /\ ok,
                                !.pc = IF @ = "moving" THEN lv.next ELSE @]
    /\ UNCHANGED <<front, build, stored, ex, attached, rd, dupTargets, ops, last>>

\* chrome.tabGroups.update(target.id, { title: target.title, collapsed }), not
\* caught; then the next bucket, or duplicateTargets.set(windowId, index)
LiveUpdate ==
    /\ lv.pc = "update"
    /\ \E ok \in CallOutcomes(lv.target.id) :
        /\ IF ok THEN HostUpdate(lv.target.id, lv.target.title, lv.kc) ELSE UNCHANGED host
        /\ faults' = FaultsAfter(lv.target.id, ok)
        /\ req' = Req("update", "live", {}, lv.target.id, ok)
        /\ IF ~ok
           THEN /\ lv' = [lv EXCEPT !.ok = FALSE, !.clean = FALSE, !.pc = "done"]
                /\ UNCHANGED dupTargets
           ELSE IF Len(lv.work) <= 1
           THEN /\ lv' = [lv EXCEPT !.work = Tail(@), !.pc = "done"]
                /\ dupTargets' = [dupTargets EXCEPT ![lv.w] = lv.index]
           ELSE /\ lv' = EnterBucket([lv EXCEPT !.work = Tail(@)])
                /\ UNCHANGED dupTargets
    /\ UNCHANGED <<front, build, stored, ex, attached, rd, ops, last>>

\* the pass has returned (or thrown)
LiveReturn ==
    /\ lv.pc = "done"
    /\ lv' = IdleLv
    /\ req' = NoReq
    /\ UNCHANGED <<front, build, host, stored, faults, ex, attached, rd, dupTargets, ops, last>>

\* ------------------------------------------------------------ single-tab redirect
IdleRd ==
    [ pc |-> "idle", tab |-> 0, groupId |-> NoGroup, w |-> 0, cs |-> FALSE, iu |-> FALSE,
      title |-> <<>>, listing |-> <<>>, target |-> NoGroup, ok |-> TRUE, gens |-> <<>> ]

\* the first listed group of the key, without the sort
FindFirstListed(listing, title, caseSensitive, includeUnnamed) ==
    LET key == normalizeTitle(title, caseSensitive)
        same == SelectSeq(listing, LAMBDA g : normalizeTitle(g.title, caseSensitive) = key)
    IN IF ~includeUnnamed /\ key = <<>> THEN NoGroup
       ELSE IF Len(same) < 2 THEN NoGroup
       ELSE same[1].id

\* findDuplicateTargetGroup on the listing of the window: null is NoGroup
FindTarget(listing, title, caseSensitive, includeUnnamed) ==
    LET key == normalizeTitle(title, caseSensitive)
        same == SelectSeq(listing, LAMBDA g : normalizeTitle(g.title, caseSensitive) = key)
    IN IF ~includeUnnamed /\ key = <<>> THEN NoGroup
       ELSE IF Len(same) < 2 THEN NoGroup
       ELSE ById(same)[1].id

\* chrome.tabs.onUpdated with changeInfo.url: a grouped tab committed a URL.
\* part_001's onTabUpdated then awaits moveTabToDuplicateTargetIfAny(tab, ...)
\* with the caseSensitive and includeUnnamed the listeners captured.
\* src/background.js's onTabUpdated calls handler(tab.windowId) at once.
TabCommitted(t) ==
    /\ ops < MaxOps
    /\ ops' = ops + 1
    /\ rd.pc = "idle"
    /\ tattr' = [tattr EXCEPT ![t] = [active |-> tattr[t].active, url |-> "https://a", pendingUrl |-> ""]]
    /\ LET gens == GensOn("tabUpdated", "auto")
           c == al.cap[gens[Len(gens)]]
           seen == IF tgroup[t] # NoGroup /\ Schedules(gens)
                   THEN Arrived(dt, twin[t], DelayDefault) ELSE dt
       IN /\ gens # <<>>
          /\ Room(gens, "tabUpdated")
          /\ rd' = IF build = "p1" /\ tgroup[t] # NoGroup
                   THEN [IdleRd EXCEPT !.pc = "get", !.tab = t, !.groupId = tgroup[t], !.w = twin[t],
                                       !.cs = c.caseSensitive, !.iu = c.includeUnnamed,
                                       !.gens = gens]
                   ELSE rd
          /\ dt' = IF build = "bg" /\ tgroup[t] # NoGroup
                   THEN Dispatch(seen, gens, "tabUpdated", twin[t], NoGroup)
                   ELSE seen
    /\ req' = NoReq
    /\ UNCHANGED <<al, er, build, tgroup, twin, gtitle, gcollapsed, stored, faults, ex, attached, lv, dupTargets, last>>

\* chrome.tabGroups.get(tab.groupId) and findDuplicateTargetGroup's early return
RdGet ==
    /\ rd.pc = "get"
    /\ rd' = IF ~Exists(rd.groupId) THEN [rd EXCEPT !.ok = FALSE, !.pc = "done"]
             ELSE IF ~rd.iu /\ normalizeTitle(gtitle[rd.groupId], rd.cs) = <<>>
             THEN [rd EXCEPT !.title = gtitle[rd.groupId], !.pc = "done"]
             ELSE [rd EXCEPT !.title = gtitle[rd.groupId], !.pc = "find"]
    /\ req' = Req("get", "redirect", {}, rd.groupId, Exists(rd.groupId))
    /\ UNCHANGED <<front, build, host, stored, faults, ex, attached, lv, dupTargets, ops, last>>

\* any target is moved to
AnyTarget(targetId, groupId) == targetId # NoGroup
\* if (targetId && targetId !== g.id)
DifferentTarget(targetId, groupId) == targetId # NoGroup /\ targetId # groupId

\* findDuplicateTargetGroup: listGroups("currentWindow", windowId) and the target
RdFind(order) ==
    /\ rd.pc = "find"
    /\ LET listing == [i \in 1..Len(order) |-> GroupRec(order[i])]
           target == FindTarget(listing, rd.title, rd.cs, rd.iu)
       IN rd' = [rd EXCEPT !.listing = listing, !.target = target,
                           !.pc = IF DifferentTarget(target, rd.groupId) THEN "move" ELSE "done"]
    /\ req' = Req("list", "redirect", {}, NoGroup, TRUE)
    /\ UNCHANGED <<front, build, host, stored, faults, ex, attached, lv, dupTargets, ops, last>>

RdFindStep ==
    \E order \in Perms({ g \in ExistingGroups : GroupWin(g) = rd.w }) : RdFind(order)

\* chrome.tabs.group({ tabIds: [tab.id], groupId: targetId }).catch(() => {})
RdMove ==
    /\ rd.pc = "move"
    /\ \E ok \in CallOutcomes(rd.target) :
        /\ IF ok THEN HostMove({rd.tab}, rd.target) ELSE UNCHANGED host
        /\ faults' = FaultsAfter(rd.target, ok)
        /\ req' = Req("move", "redirect", {rd.tab}, rd.target, ok)
        /\ rd' = [rd EXCEPT !.ok = ok, !.pc = "done"]
    /\ UNCHANGED <<front, build, stored, ex, attached, lv, dupTargets, ops, last>>

\* moveTabToDuplicateTargetIfAny has returned: onTabUpdated goes on to
\* handler(tab.windowId)
RdReturn ==
    /\ rd.pc = "done"
    /\ Room(rd.gens, "tabUpdated")
    /\ rd' = IdleRd
    /\ dt' = Dispatch(dt, rd.gens, "tabUpdated", rd.w, NoGroup)
    /\ req' = NoReq
    /\ UNCHANGED <<al, er, build, host, stored, faults, ex, attached, lv, dupTargets, ops, last>>

\* ------------------------------------------------------------ host events and timers
\* chrome.tabGroups.onCreated for group g
GroupCreated(g) ==
    /\ Exists(g)
    /\ LET gens == GensOn("groupCreated", "auto")
           w == GroupWin(g)
       IN /\ Room(gens, "groupCreated")
          /\ dt' = Dispatch(IF Schedules(gens) THEN Arrived(dt, w, DelayCreated) ELSE dt,
                            gens, "groupCreated", w, g)
    /\ req' = NoReq
    /\ UNCHANGED <<al, er, build, host, stored, faults, ex, attached, lv, rd, dupTargets, ops, last>>

\* the events whose listener is handler(windowId) and nothing else
PlainEvents == AutoEvents \ {"groupCreated", "tabUpdated"}

ChangeEvent(event, w) ==
    /\ event \in PlainEvents
    /\ LET gens == GensOn(event, "auto")
       IN /\ Room(gens, event)
          /\ dt' = Dispatch(IF Schedules(gens) THEN Arrived(dt, w, DelayDefault) ELSE dt,
                            gens, event, w, NoGroup)
    /\ req' = NoReq
    /\ UNCHANGED <<al, er, build, host, stored, faults, ex, attached, lv, rd, dupTargets, ops, last>>

\* the user moves group g, with its tabs, to window w: the host reports the
\* tabs detached from the old window and attached to the new one, to
\* onTabDetached (handler(oldWindowId)) and onTabAttached (handler(newWindowId))
GroupToWindow(g, w) ==
    /\ Exists(g)
    /\ GroupWin(g) # w
    /\ twin' = [t \in TabIds |-> IF tgroup[t] = g THEN w ELSE twin[t]]
    /\ LET from == GensOn("tabDetached", "auto")
           to == GensOn("tabAttached", "auto")
           left == Dispatch(IF Schedules(from) THEN Arrived(dt, GroupWin(g), DelayDefault) ELSE dt,
                            from, "tabDetached", GroupWin(g), NoGroup)
       IN /\ dt.made + Len(from) + Len(to) <= MaxTimers
          /\ dt' = Dispatch(IF Schedules(to) THEN Arrived(left, w, DelayDefault) ELSE left,
                            to, "tabAttached", w, NoGroup)
    /\ req' = Req("none", "user", TabsIn(g), g, TRUE)
    /\ UNCHANGED <<al, er, build, tgroup, tattr, gtitle, gcollapsed, stored, faults, ex, attached, lv,
                   rd, dupTargets, ops, last>>

\* the user ungroups the tabs of group g: the group ceases to exist and the
\* host reports it to onGroupRemoved (handler(windowId)); the tabs' own
\* onUpdated events carry groupId -1, which onTabUpdated passes over
GroupUngrouped(g) ==
    /\ Exists(g)
    /\ tgroup' = MovedNowhere(TabsIn(g), g)
    /\ gtitle' = TitleAfter(MovedNowhere(TabsIn(g), g), gtitle)
    /\ gcollapsed' = CollapsedAfter(MovedNowhere(TabsIn(g), g), gcollapsed)
    /\ LET gens == GensOn("groupRemoved", "auto")
       IN /\ Room(gens, "groupRemoved")
          /\ dt' = Dispatch(IF Schedules(gens) THEN Arrived(dt, GroupWin(g), DelayDefault) ELSE dt,
                            gens, "groupRemoved", GroupWin(g), NoGroup)
    /\ req' = Req("none", "user", TabsIn(g), g, TRUE)
    /\ UNCHANGED <<al, er, build, twin, tattr, stored, faults, ex, attached, lv, rd, dupTargets,
                   ops, last>>

\* the user renames group g: the host reports it to onGroupUpdated
\* (handler(windowId))
GroupRenamed(g, title) ==
    /\ Exists(g)
    /\ gtitle[g] # title
    /\ gtitle' = [gtitle EXCEPT ![g] = title]
    /\ LET gens == GensOn("groupUpdated", "auto")
       IN /\ Room(gens, "groupUpdated")
          /\ dt' = Dispatch(IF Schedules(gens) THEN Arrived(dt, GroupWin(g), DelayDefault) ELSE dt,
                            gens, "groupUpdated", GroupWin(g), NoGroup)
    /\ req' = Req("none", "user", {}, g, TRUE)
    /\ UNCHANGED <<al, er, build, tgroup, twin, tattr, gcollapsed, stored, faults, ex, attached, lv,
                   rd, dupTargets, ops, last>>

\* time passes: one unit
Tick ==
    /\ \E x \in dt.armed : x.left > 0
    /\ dt' = [dt EXCEPT !.armed = { [x EXCEPT !.left = IF @ > 0 THEN @ - 1 ELSE 0] : x \in dt.armed },
                        !.burst = [w \in Windows |->
                                     [dt.burst[w] EXCEPT !.age = IF @ < DelayDefault THEN @ + 1 ELSE @]]]
    /\ req' = NoReq
    /\ UNCHANGED <<al, er, build, host, stored, faults, ex, attached, lv, rd, dupTargets, ops, last>>

\* recomputeAndDrainDuplicates(windowId, settings) begins
StartLive(w, c) ==
    [IdleLv EXCEPT !.pc = "list", !.w = w, !.cs = c.caseSensitive, !.iu = c.includeUnnamed,
                   !.fm = c.fastMerge, !.kc = c.keepCollapsed]

\* a debounce timer is due and its closure runs: recomputeAndDrainDuplicates
\* with the settings the closure captured
TimerFire(id) ==
    /\ lv.pc = "idle"
    /\ \E x \in dt.armed :
        /\ x.id = id /\ x.kind = "recompute" /\ x.left = 0
        /\ dt' = [dt EXCEPT !.armed = @ \ {x},
                            !.burst[x.w] = [@ EXCEPT !.runs = IF @ < MaxTimers THEN @ + 1 ELSE @]]
        /\ lv' = StartLive(x.w, x.c)
    /\ req' = NoReq
    /\ UNCHANGED <<al, er, build, host, stored, faults, ex, attached, rd, dupTargets, ops, last>>

\* the deferred discardNonActiveTabsInGroup(g.id) of onGroupCreated is due
DiscardTimerFire(id) ==
    /\ \E x \in dt.armed :
        /\ x.id = id /\ x.kind = "discard" /\ x.left = 0
        /\ dt' = [dt EXCEPT !.armed = @ \ {x}]
        /\ req' = DiscardReq("created", { t \in TabsIn(x.g) : ~tattr[t].active })
    /\ UNCHANGED <<al, er, build, host, stored, faults, ex, attached, lv, rd, dupTargets, ops, last>>

\* ------------------------------------------------------------ early discard and redirect
\* tabCreatedHandlerRef and tabUpdatedHandlerRef of src/background.js: st is
\* duplicateTargets.get(tab.windowId) as the listener read it
IdleEr ==
    [ pc |-> "idle", tab |-> 0, groupId |-> NoGroup, w |-> 0, cs |-> FALSE, st |-> {},
      target |-> NoGroup, ok |-> TRUE ]

\* the listener's synchronous part for tab t: the redirect is begun when the
\* tab is in a group and its window has an index (has); an empty index has
\* no entry for any key, as no index
EarlyRedirect(t, c, has) ==
    IF tattr[t].active \/ tgroup[t] = NoGroup \/ ~has THEN IdleEr
    ELSE [IdleEr EXCEPT !.pc = "get", !.tab = t, !.groupId = tgroup[t], !.w = twin[t],
                        !.cs = c.caseSensitive, !.st = dupTargets[twin[t]]]

\* chrome.tabs.onCreated for tab t
TabCreated(t) ==
    /\ er.pc = "idle"
    /\ LET gens == GensOn("tabCreated", "early")
       IN /\ gens # <<>>
          /\ er' = EarlyRedirect(t, al.cap[gens[Len(gens)]], dupTargets[twin[t]] # {})
    /\ req' = IF tattr[t].active THEN NoReq ELSE DiscardReq("early", {t})
    /\ UNCHANGED <<dt, al, build, host, stored, faults, ex, attached, lv, rd, dupTargets, ops, last>>

\* chrome.tabs.onUpdated for tab t with status "loading" and no url: the
\* early-discard listener, when attached, and onTabUpdated's handler(tab.windowId)
TabLoading(t) ==
    /\ er.pc = "idle"
    /\ LET gens == GensOn("tabUpdated", "auto")
           early == GensOn("tabUpdated", "early")
       IN /\ Room(gens, "tabUpdated")
          /\ dt' = IF tgroup[t] # NoGroup
                   THEN Dispatch(IF Schedules(gens) THEN Arrived(dt, twin[t], DelayDefault) ELSE dt,
                                 gens, "tabUpdated", twin[t], NoGroup)
                   ELSE dt
          /\ er' = IF early = <<>> THEN er
                   ELSE EarlyRedirect(t, al.cap[early[Len(early)]], dupTargets[twin[t]] # {})
          /\ req' = IF early = <<>> \/ tattr[t].active THEN NoReq ELSE DiscardReq("early", {t})
    /\ UNCHANGED <<al, build, host, stored, faults, ex, attached, lv, rd, dupTargets, ops, last>>

\* st.get(key): the entry of the index for a key, or none
EntryOf(st, key) == { e \in st : e.key = key }

\* chrome.tabGroups.get(tab.groupId).then(...): the entry for the group's key
ErGet ==
    /\ er.pc = "get"
    /\ LET found == IF Exists(er.groupId)
                    THEN EntryOf(er.st, normalizeTitle(gtitle[er.groupId], er.cs)) ELSE {}
           target == IF found = {} THEN NoGroup ELSE (CHOOSE e \in found : TRUE).target
       IN er' = IF target # NoGroup /\ target # er.groupId
                THEN [er EXCEPT !.target = target, !.pc = "move"]
                ELSE IdleEr
    /\ req' = Req("get", "early", {}, er.groupId, Exists(er.groupId))
    /\ UNCHANGED <<dt, al, build, host, stored, faults, ex, attached, lv, rd, dupTargets, ops, last>>

\* void chrome.tabs.group({ tabIds: [tab.id], groupId: e.target }).catch(() => {})
ErMove ==
    /\ er.pc = "move"
    /\ \E ok \in CallOutcomes(er.target) :
        /\ IF ok THEN HostMove({er.tab}, er.target) ELSE UNCHANGED host
        /\ faults' = FaultsAfter(er.target, ok)
        /\ req' = Req("move", "early", {er.tab}, er.target, ok)
    /\ er' = IdleEr
    /\ UNCHANGED <<dt, al, build, stored, ex, attached, lv, rd, dupTargets, ops, last>>

\* ------------------------------------------------------------ message router
\* LIST_GROUPS: listGroups(scope) and listTabsInGroup for each group, answered
\* with the groups and their tab counts
ListGroups(type, scope) ==
    /\ Route(type) = "LIST_GROUPS"
    /\ \E cw \in Windows :
        \E order \in Perms({ g \in ExistingGroups : scope = "allWindows" \/ GroupWin(g) = cw }) :
            last' = [NoLast EXCEPT !.type = type, !.ok = TRUE, !.scope = scope, !.cw = cw,
                                   !.results = CountsOf([i \in 1..Len(order) |-> GroupRec(order[i])])]
    /\ req' = Req("list", "router", {}, NoGroup, TRUE)
    /\ UNCHANGED <<front, build, host, stored, faults, ex, liveVars, ops>>

\* GET_SETTINGS: chrome.storage.sync.get, answered with the settings
GetSettings(type) ==
    /\ Route(type) = "GET_SETTINGS"
    /\ last' = [NoLast EXCEPT !.type = type, !.ok = TRUE, !.results = <<stored>>]
    /\ req' = Req("settings", "router", {}, NoGroup, TRUE)
    /\ UNCHANGED <<front, build, host, stored, faults, ex, liveVars, ops>>

\* SET_SETTINGS: chrome.storage.sync.set(msg.settings || {}), st being the
\* settings once written; storage.onChanged follows a write that changed a value
SetSettings(type, st) ==
    /\ Route(type) = "SET_SETTINGS"
    /\ al.made + al.calls < MaxAttach
    /\ stored' = st
    /\ al' = IF st # stored THEN [al EXCEPT !.calls = @ + 1, !.over = @ \/ al.calls > 0] ELSE al
    /\ last' = [NoLast EXCEPT !.type = type, !.ok = TRUE]
    /\ req' = Req("settings", "router", {}, NoGroup, TRUE)
    /\ UNCHANGED <<dt, er, build, host, faults, ex, liveVars, ops>>

\* any other type: { ok: false, error: "Unknown message type." }
UnknownMessage(type) ==
    /\ Route(type) = "unknown"
    /\ last' = [NoLast EXCEPT !.type = type, !.ok = FALSE, !.err = "Unknown message type."]
    /\ req' = NoReq
    /\ UNCHANGED <<front, build, host, stored, faults, ex, liveVars, ops>>

\* ------------------------------------------------------------ settings changes
\* a write to chrome.storage.sync that changes a value (SET_SETTINGS or the
\* options page): storage.onChanged calls maybeAttachAutoMergeListeners, which
\* awaits its storage read
SettingsChanged(st) ==
    /\ st # stored
    /\ al.made + al.calls < MaxAttach
    /\ stored' = st
    /\ al' = [al EXCEPT !.calls = @ + 1, !.over = @ \/ al.calls > 0]
    /\ req' = NoReq
    /\ UNCHANGED <<dt, er, build, host, faults, ex, attached, lv, rd, dupTargets, ops, last>>

\* the storage read of the oldest waiting invocation returns and the
\* invocation runs to its end
AttachResume ==
    /\ al.calls > 0
    /\ al' = maybeAttachAutoMergeListeners(al, stored)
    /\ attached' = Captured(stored)
    /\ req' = NoReq
    /\ UNCHANGED <<dt, er, build, host, stored, faults, ex, lv, rd, dupTargets, ops, last>>

\* ------------------------------------------------------------ initial states
KActive == [active |-> TRUE, url |-> "https://a", pendingUrl |-> ""]
KPlain == [active |-> FALSE, url |-> "https://a", pendingUrl |-> ""]
KBlank == [active |-> FALSE, url |-> "about:blank", pendingUrl |-> ""]
KPending == [active |-> FALSE, url |-> "", pendingUrl |-> "https://b"]
KRedirect == [active |-> FALSE, url |-> "https://a", pendingUrl |-> "https://b"]
TabKinds == {KActive, KPlain, KBlank, KPending, KRedirect}

AllSettings ==
    [autoMerge : BOOLEAN, caseSensitive : BOOLEAN, includeUnnamed : BOOLEAN,
     fastMerge : BOOLEAN, keepCollapsed : BOOLEAN]

\* the state the host is in for a grouping of the tabs, a window per group,
\* a title per group and an attribute record per tab
InitHost(groupings, groupWins, titleFns, attrs) ==
    /\ tgroup \in groupings
    /\ \E gw \in groupWins : twin = [t \in TabIds |-> IF tgroup[t] = NoGroup THEN 1 ELSE gw[tgroup[t]]]
    /\ gtitle \in { TitleAfter(tgroup, f) : f \in titleFns }
    /\ gcollapsed = [g \in GroupIds |-> FALSE]
    /\ tattr \in attrs

InitRest(hostFaults) ==
    /\ ex = IdleEx
    /\ lv = IdleLv
    /\ rd = IdleRd
    /\ req = NoReq
    /\ faults = MaxFaults - hostFaults
    /\ ops = 0
    /\ last = NoLast
    /\ attached = Captured(stored)
    /\ dupTargets = [w \in Windows |-> {}]
    /\ dt = IdleDt
    /\ al = maybeAttachAutoMergeListeners(NoListeners, stored)
    /\ er = IdleEr

AllGroupings == [TabIds -> GroupIds \cup {NoGroup}]

\* groups 1..k exist, tab g in group g; the next tab is in one of them or in
\* none; the others are in no group
OnePerGroup(k) ==
    { f \in AllGroupings :
        /\ \A t \in TabIds : t <= k => f[t] = t
        /\ \A t \in TabIds : t = k + 1 => f[t] \in (1..k) \cup {NoGroup}
        /\ \A t \in TabIds : t > k + 1 => f[t] = NoGroup }

\* groups 1..k exist, tab g in group g; the next tab is in group k or in none
LastOrNone(k) == { f \in OnePerGroup(k) : \A t \in TabIds : t = k + 1 => f[t] \in {k, NoGroup} }

\* every tab is in group 1 or 2 and both groups exist
TwoGroups ==
    { f \in [TabIds -> {1, 2}] : \E t, u \in TabIds : f[t] = 1 /\ f[u] = 2 }

OneWindow == { [g \in GroupIds |-> 1] }
\* groups 1 and 2 in window 1, the others in window 2
SplitWindows == { [g \in GroupIds |-> IF g <= 2 THEN 1 ELSE 2] }
\* the last group alone in window 2
LastApart == { [g \in GroupIds |-> IF g = MaxGroups - 1 THEN 2 ELSE 1] }

\* tab 1 is active (or not), tab 2 may be blank or mid-navigation, the rest
\* are background tabs with a committed URL
PlainAttrs == { [t \in TabIds |-> IF t = 1 THEN KActive ELSE KPlain] }
AttrPatterns ==
    { f \in [TabIds -> TabKinds] :
        /\ f[1] \in {KActive, KPlain}
        /\ \A t \in TabIds : t >= 2 => f[t] \in {KPlain, KBlank, KPending, KRedirect}
        /\ \A t \in TabIds : t >= 3 => f[t] = KPlain }

NamedTitles == { <<>>, <<"A">>, <<"a">>, <<" ", "A">> }

Family(builds, groupings, groupWins, titleFns, attrs, settings, hostFaults) ==
    /\ build \in builds
    /\ InitHost(groupings, groupWins, titleFns, attrs)
    /\ stored \in settings
    /\ InitRest(hostFaults)

\* titles: three groups of one window, any titles, any matching settings
FamilyTitles ==
    Family({"bg"}, LastOrNone(MaxGroups - 1), OneWindow, [GroupIds -> NamedTitles], PlainAttrs,
           { s \in AllSettings : ~s.autoMerge /\ ~s.fastMerge /\ s.keepCollapsed }, 0)

\* windows and several buckets: four groups with two titles
FamilyBuckets ==
    Family({"p1"}, OnePerGroup(MaxGroups), OneWindow \cup SplitWindows \cup LastApart,
           { f \in [GroupIds -> {<<"A">>, <<"b">>}] : f[1] = <<"A">> }, PlainAttrs,
           { s \in AllSettings : ~s.autoMerge /\ ~s.caseSensitive /\ ~s.includeUnnamed
                                 /\ ~s.fastMerge /\ ~s.keepCollapsed }, 0)

\* discards: two groups of one title, any tab attributes, fastMerge on
FamilyDiscards ==
    Family(Builds, TwoGroups, OneWindow, { [g \in GroupIds |-> <<"A">>] }, AttrPatterns,
           { s \in AllSettings : ~s.autoMerge /\ ~s.caseSensitive /\ ~s.includeUnnamed
                                 /\ s.fastMerge /\ s.keepCollapsed }, 0)

\* transient host failures: three groups titled "A" or "a"
FamilyFaults ==
    Family({"bg"}, LastOrNone(MaxGroups - 1), OneWindow, [GroupIds -> {<<"A">>, <<"a">>}], PlainAttrs,
           { s \in AllSettings : ~s.autoMerge /\ ~s.includeUnnamed /\ ~s.fastMerge /\ s.keepCollapsed },
           MaxFaults)

InitDup == FamilyTitles \/ FamilyBuckets \/ FamilyDiscards \/ FamilyFaults

NextDup ==
    \/ \E scope \in Scopes : MergeDuplicatesRequest(scope)
    \/ DupListStep
    \/ DupCount
    \/ PreDiscard
    \/ DrainList
    \/ DrainIssue
    \/ DrainMove
    \/ DupUpdate
    \/ Respond

\* the explicit merge by name alone
SpecDup == InitDup /\ [][NextDup]_vars

\* ------------------------------------------------------------ merge selected alone
\* the selections the popup may send: up to two ids, repeated or not, of
\* groups that exist or not, and every ordering of the first three groups
SelInputs ==
    { ListOf(items) : items \in UNION { [1..n -> GroupIds] : n \in 0..2 } \cup Perms(1..(MaxGroups - 1)) }
        \cup { NotAList(<<1, 2>>) }
SelTitles == { Undef, <<" ">>, <<"b", " ">> }

\* three groups, the last one in window 2 or not
FamilySel ==
    Family({"bg"}, LastOrNone(MaxGroups - 1), OneWindow \cup LastApart,
           { [g \in GroupIds |-> IF g = 1 THEN <<"A">> ELSE IF g = 2 THEN <<" ", "A">> ELSE <<"b">>] },
           PlainAttrs,
           { s \in AllSettings : ~s.autoMerge /\ ~s.caseSensitive /\ ~s.includeUnnamed
                                 /\ s.fastMerge = s.keepCollapsed },
           MaxFaults)

InitSel == FamilySel

NextSel ==
    \/ \E groupIds \in SelInputs, targetTitle \in SelTitles : MergeSelectedRequest(groupIds, targetTitle)
    \/ SelGet
    \/ SelCount
    \/ SelSettings
    \/ SelUpdate
    \/ PreDiscard
    \/ DrainList
    \/ DrainIssue
    \/ DrainMove
    \/ Respond

SpecSel == InitSel /\ [][NextSel]_vars

\* ------------------------------------------------------------ the live path alone
\* auto-merge on: three groups with any of three titles
FamilyLive ==
    Family({"p1"}, LastOrNone(MaxGroups - 1), OneWindow,
           { f \in [GroupIds -> {<<"A">>, <<"a">>, <<>>}] : f[1] = <<"A">> }, PlainAttrs,
           { s \in AllSettings : s.autoMerge /\ ~s.fastMerge /\ s.keepCollapsed },
           0)

InitLive == FamilyLive

NextLive ==
    \/ \E w \in Windows : LiveFire(w)
    \/ LiveListStep
    \/ LiveDrainList
    \/ LiveDrainIssue
    \/ LiveDrainMove
    \/ LiveUpdate
    \/ LiveReturn
    \/ \E t \in TabIds : TabCommitted(t)
    \/ RdGet
    \/ RdFindStep
    \/ RdMove
    \/ RdReturn

SpecLive == InitLive /\ [][NextLive]_vars

\* ------------------------------------------------------------ all operations
\* four groups of one window, two of them unnamed or not, a tab that is
\* mid-navigation or not, auto-merge on
\* timers: groups 1 and 2 in window 1, group 3 in window 2, auto-merge on
FamilyTimers ==
    Family(Builds, LastOrNone(MaxGroups - 1), LastApart, { [g \in GroupIds |-> <<"A">>] }, PlainAttrs,
           { s \in AllSettings : s.autoMerge /\ ~s.caseSensitive /\ ~s.includeUnnamed
                                 /\ s.fastMerge /\ s.keepCollapsed }, 0)

InitTimers == FamilyTimers

\* events arrive and time passes between the passes, not during one
NextTimers ==
    \/ lv.pc = "idle" /\ \E g \in {1, MaxGroups - 1} : GroupCreated(g)
    \/ lv.pc = "idle" /\ \E event \in {"groupUpdated", "tabMoved"}, w \in Windows : ChangeEvent(event, w)
    \/ lv.pc = "idle" /\ TabCommitted(2)
    \/ lv.pc = "idle" /\ Tick
    \/ \E id \in 1..MaxTimers : TimerFire(id)
    \/ \E id \in 1..MaxTimers : DiscardTimerFire(id)
    \/ LiveListStep
    \/ LiveDrainList
    \/ LiveDrainIssue
    \/ LiveDrainMove
    \/ LiveUpdate
    \/ LiveReturn
    \/ RdGet
    \/ RdFindStep
    \/ RdMove
    \/ RdReturn

SpecTimers == InitTimers /\ [][NextTimers]_vars

\* the response to events: the timers' family with its fifth tab ungrouped
InitResponse == FamilyTimers /\ tgroup[MaxGroups] = NoGroup

\* no pass and no redirect is under way
Between == lv.pc = "idle" /\ rd.pc = "idle"

\* events arrive between the passes and the redirects; the user may ungroup a
\* group while a timer is armed
NextResponse ==
    \/ Between /\ GroupCreated(1)
    \/ Between /\ \E w \in Windows : ChangeEvent("groupUpdated", w)
    \/ Between /\ TabCommitted(2)
    \/ Between /\ GroupUngrouped(2)
    \/ lv.pc = "idle" /\ Tick
    \/ \E id \in 1..MaxTimers : TimerFire(id)
    \/ \E id \in 1..MaxTimers : DiscardTimerFire(id)
    \/ LiveListStep
    \/ LiveDrainList
    \/ LiveDrainIssue
    \/ LiveDrainMove
    \/ LiveUpdate
    \/ LiveReturn
    \/ RdGet
    \/ RdFindStep
    \/ RdMove
    \/ RdReturn

\* a step of the worker or the host that is not an event: time passes, a
\* due timer fires, a host call settles
Runs ==
    \/ lv.pc = "idle" /\ Tick
    \/ \E id \in 1..MaxTimers : TimerFire(id)
    \/ \E id \in 1..MaxTimers : DiscardTimerFire(id)
    \/ lv.pc = "list" /\ LiveListStep
    \/ LiveDrainList \/ LiveDrainIssue \/ LiveDrainMove \/ LiveUpdate \/ LiveReturn
    \/ RdGet \/ RdMove \/ RdReturn
    \/ rd.pc = "find" /\ RdFindStep

\* the event loop does not stop while something is runnable
FairResponse == WF_vars(Runs)

SpecResponse == InitResponse /\ [][NextResponse]_vars /\ FairResponse

\* settings changes: groups 1 and 2 titled "A" in window 1, auto-merge on at
\* start-up, one host call may fail
FamilyAttach ==
    Family(Builds, { f \in LastOrNone(2) : f[3] = 2 }, OneWindow, { [g \in GroupIds |-> <<"A">>] },
           PlainAttrs,
           { s \in AllSettings : s.autoMerge /\ ~s.caseSensitive /\ ~s.includeUnnamed
                                 /\ s.fastMerge /\ s.keepCollapsed }, MaxFaults)

InitAttach == FamilyAttach

\* the settings a write may leave: autoMerge or fastMerge switched
Switched(st) ==
    { [st EXCEPT !.autoMerge = ~@], [st EXCEPT !.fastMerge = ~@] }

\* no pass and no redirect is under way
Calm == lv.pc = "idle" /\ rd.pc = "idle" /\ er.pc = "idle"

\* settings are written, events arrive and time passes between the passes
\* and redirects, not during one
NextAttach ==
    \/ Calm /\ \E st \in Switched(stored) : SettingsChanged(st)
    \/ AttachResume
    \/ Calm /\ GroupCreated(1)
    \/ Calm /\ ChangeEvent("groupRemoved", 1)
    \/ Calm /\ TabCommitted(2)
    \/ Calm /\ TabLoading(2)
    \/ Calm /\ TabCreated(2)
    \/ Calm /\ Tick
    \/ \E id \in 1..MaxTimers : TimerFire(id)
    \/ \E id \in 1..MaxTimers : DiscardTimerFire(id)
    \/ LiveListStep
    \/ LiveDrainList
    \/ LiveDrainIssue
    \/ LiveDrainMove
    \/ LiveUpdate
    \/ LiveReturn
    \/ RdGet
    \/ RdFindStep
    \/ RdMove
    \/ RdReturn
    \/ ErGet
    \/ ErMove

SpecAttach == InitAttach /\ [][NextAttach]_vars

\* two windows: groups 1 and 2 in window 1, groups 3 and 4 in window 2, all
\* titled "A"; one host call may fail
FamilyWindows ==
    Family(Builds, { f \in OnePerGroup(MaxGroups) : \A t \in TabIds : t > MaxGroups => f[t] = 2 },
           SplitWindows, { [g \in GroupIds |-> <<"A">>] }, PlainAttrs,
           { s \in AllSettings : s.autoMerge /\ ~s.caseSensitive /\ ~s.includeUnnamed
                                 /\ s.fastMerge /\ s.keepCollapsed }, MaxFaults)

InitWindows == FamilyWindows

SelWindows == { <<1, 2>>, <<2, MaxGroups>>, <<MaxGroups - 1, MaxGroups>> }

\* every operation, started when nothing else is under way
NextWindows ==
    \/ ex.op = "idle" /\ Calm /\ \E scope \in Scopes : MergeDuplicatesRequest(scope)
    \/ DupListStep
    \/ DupCount
    \/ PreDiscard
    \/ DrainList
    \/ DrainIssue
    \/ DrainMove
    \/ DupUpdate
    \/ Respond
    \/ ex.op = "idle" /\ Calm /\ \E ids \in SelWindows : MergeSelectedRequest(ListOf(ids), Undef)
    \/ SelGet
    \/ SelCount
    \/ SelSettings
    \/ SelUpdate
    \/ ex.op = "idle" /\ Calm /\ \E w \in Windows : LiveFire(w)
    \/ LiveListStep
    \/ LiveDrainList
    \/ LiveDrainIssue
    \/ LiveDrainMove
    \/ LiveUpdate
    \/ LiveReturn
    \/ ex.op = "idle" /\ Calm /\ \E t \in {2, MaxGroups} : TabCommitted(t)
    \/ RdGet
    \/ RdFindStep
    \/ RdMove
    \/ RdReturn
    \/ ex.op = "idle" /\ Calm /\ \E t \in {2, MaxGroups} : TabLoading(t)
    \/ ex.op = "idle" /\ Calm /\ \E t \in {2, MaxGroups} : TabCreated(t)
    \/ ErGet
    \/ ErMove
    \/ ex.op = "idle" /\ Calm /\ GroupToWindow(1, 2)

SpecWindows == InitWindows /\ [][NextWindows]_vars

\* messages: two groups titled "A" in one window
FamilyRouter ==
    Family(Builds, { f \in LastOrNone(2) : f[3] = 2 }, OneWindow, { [g \in GroupIds |-> <<"A">>] },
           PlainAttrs,
           { s \in AllSettings : ~s.autoMerge /\ ~s.caseSensitive /\ ~s.includeUnnamed
                                 /\ s.fastMerge /\ s.keepCollapsed }, 0)

InitRouter == FamilyRouter

\* the types of the messages sent: the five the router knows, one it does
\* not, and one in the wrong case
MessageTypes == KnownTypes \cup {"PING", "merge_duplicates"}

NextRouter ==
    \/ \E type \in MessageTypes, scope \in Scopes : ListGroups(type, scope)
    \/ \E type \in MessageTypes, scope \in Scopes :
          Route(type) = "MERGE_DUPLICATES" /\ MergeDuplicatesRequest(scope)
    \/ DupListStep
    \/ DupCount
    \/ PreDiscard
    \/ DrainList
    \/ DrainIssue
    \/ DrainMove
    \/ DupUpdate
    \/ Respond
    \/ \E type \in MessageTypes, ids \in {<<1>>, <<1, 2>>} :
          Route(type) = "MERGE_SELECTED" /\ MergeSelectedRequest(ListOf(ids), Undef)
    \/ SelGet
    \/ SelCount
    \/ SelSettings
    \/ SelUpdate
    \/ \E type \in MessageTypes : GetSettings(type)
    \/ \E type \in MessageTypes, st \in Switched(stored) \cup {stored} : SetSettings(type, st)
    \/ AttachResume
    \/ \E type \in MessageTypes : UnknownMessage(type)

SpecRouter == InitRouter /\ [][NextRouter]_vars

\* groups that vanish during a merge: two buckets, "A" and "b", in one
\* window, no failure of the host's own
FamilyUngroup ==
    Family(Builds, { f \in OnePerGroup(MaxGroups) : f[MaxTabs] = 2 }, OneWindow,
           { [g \in GroupIds |-> IF g <= 2 THEN <<"A">> ELSE <<"b">>] }, PlainAttrs,
           { s \in AllSettings : ~s.autoMerge /\ ~s.caseSensitive /\ ~s.includeUnnamed
                                 /\ s.keepCollapsed }, 0)

InitUngroup == FamilyUngroup

NextUngroup ==
    \/ \E scope \in Scopes : MergeDuplicatesRequest(scope)
    \/ DupListStep
    \/ DupCount
    \/ PreDiscard
    \/ DrainList
    \/ DrainIssue
    \/ DrainMove
    \/ DupUpdate
    \/ Respond
    \/ \E g \in GroupIds : ex.op = "dup" /\ GroupUngrouped(g)

SpecUngroup == InitUngroup /\ [][NextUngroup]_vars

\* the user at work during the live passes: groups 1 and 2 titled "A", group
\* 3 titled "b", auto-merge on, no failure of the host's own
FamilyRace ==
    Family(Builds, { f \in LastOrNone(MaxGroups - 1) : f[MaxGroups] = NoGroup }, OneWindow,
           { [g \in GroupIds |-> IF g <= 2 THEN <<"A">> ELSE <<"b">>] }, PlainAttrs,
           { s \in AllSettings : s.autoMerge /\ ~s.caseSensitive /\ ~s.includeUnnamed
                                 /\ ~s.fastMerge /\ s.keepCollapsed }, 0)

InitRace == FamilyRace

NextRace ==
    \/ \E w \in Windows : LiveFire(w)
    \/ LiveListStep
    \/ LiveDrainList
    \/ LiveDrainIssue
    \/ LiveDrainMove
    \/ LiveUpdate
    \/ LiveReturn
    \/ \E g \in GroupIds : GroupUngrouped(g)
    \/ \E g \in GroupIds, title \in {<<"A">>, <<"b">>} : GroupRenamed(g, title)

SpecRace == InitRace /\ [][NextRace]_vars

\* single-tab redirects against a changing host: groups 1 and 2 titled "A",
\* group 3 titled "b", auto-merge and fastMerge on, no failure of the host's own
FamilyStale ==
    Family(Builds, { f \in LastOrNone(MaxGroups - 1) : f[MaxGroups] = NoGroup }, OneWindow,
           { [g \in GroupIds |-> IF g <= 2 THEN <<"A">> ELSE <<"b">>] }, PlainAttrs,
           { s \in AllSettings : s.autoMerge /\ ~s.caseSensitive /\ ~s.includeUnnamed
                                 /\ s.fastMerge /\ s.keepCollapsed }, 0)

InitStale == FamilyStale

\* passes and tab events begin when no pass and no redirect is under way;
\* the user ungroups or renames a group at any time
NextStale ==
    \/ Calm /\ LiveFire(1)
    \/ LiveListStep
    \/ LiveDrainList
    \/ LiveDrainIssue
    \/ LiveDrainMove
    \/ LiveUpdate
    \/ LiveReturn
    \/ \E g \in GroupIds : GroupUngrouped(g)
    \/ \E g \in GroupIds, title \in {<<"A">>, <<"b">>} : GroupRenamed(g, title)
    \/ Calm /\ \E t \in {2, 3} : TabCommitted(t)
    \/ RdGet
    \/ RdFindStep
    \/ RdMove
    \/ RdReturn
    \/ Calm /\ \E t \in {2, 3} : TabLoading(t)
    \/ Calm /\ \E t \in {2, 3} : TabCreated(t)
    \/ ErGet
    \/ ErMove

SpecStale == InitStale /\ [][NextStale]_vars

\* every operation that may discard: groups 1 and 2 titled "A" in window 1,
\* auto-merge on, fastMerge on or off at start-up and switched later
FamilyFast ==
    Family(Builds, { f \in LastOrNone(2) : f[3] = 2 }, OneWindow, { [g \in GroupIds |-> <<"A">>] },
           PlainAttrs,
           { s \in AllSettings : s.autoMerge /\ ~s.caseSensitive /\ ~s.includeUnnamed
                                 /\ s.keepCollapsed }, MaxFaults)

InitFast == FamilyFast

\* no operation, pass or redirect is under way
AllIdle == ex.op = "idle" /\ Calm

\* no timer is armed and no attachment is awaiting its storage read either
AtRest == AllIdle /\ dt.armed = {} /\ al.calls = 0

\* settings writes and events arrive when nothing is under way, messages
\* and created tabs when the worker is at rest; timers fire between the
\* operations
NextFast ==
    \/ AllIdle /\ SettingsChanged([stored EXCEPT !.fastMerge = ~@])
    \/ AttachResume
    \/ AtRest /\ MergeDuplicatesRequest("currentWindow")
    \/ DupListStep
    \/ DupCount
    \/ PreDiscard
    \/ DrainList
    \/ DrainIssue
    \/ DrainMove
    \/ DupUpdate
    \/ Respond
    \/ AtRest /\ MergeSelectedRequest(ListOf(<<1, 2>>), Undef)
    \/ SelGet
    \/ SelCount
    \/ SelSettings
    \/ SelUpdate
    \/ AllIdle /\ GroupCreated(1)
    \/ AllIdle /\ TabLoading(2)
    \/ AtRest /\ TabCreated(2)
    \/ AllIdle /\ Tick
    \/ ex.op = "idle" /\ \E id \in 1..MaxTimers : TimerFire(id)
    \/ \E id \in 1..MaxTimers : DiscardTimerFire(id)
    \/ LiveListStep
    \/ LiveDrainList
    \/ LiveDrainIssue
    \/ LiveDrainMove
    \/ LiveUpdate
    \/ LiveReturn
    \/ ErGet
    \/ ErMove

SpecFast == InitFast /\ [][NextFast]_vars

\* an explicit merge and a live pass on one window: groups titled "A", two
\* of them or three, the last one the largest
MixGroupings ==
    { <<1, 2, 2, NoGroup, NoGroup>>, <<1, 2, 2, 2, NoGroup>>, <<1, 2, 3, 3, NoGroup>> }

FamilyMix ==
    Family(Builds, MixGroupings, OneWindow, { [g \in GroupIds |-> <<"A">>] }, PlainAttrs,
           { s \in AllSettings : s.autoMerge /\ ~s.caseSensitive /\ ~s.includeUnnamed
                                 /\ s.fastMerge /\ s.keepCollapsed }, 0)

InitMix == FamilyMix

\* MERGE_DUPLICATES arrives and the debounce timer fires whenever the worker
\* is not already running the same kind of pass; the steps of the two passes
\* interleave at their host calls
NextMix ==
    \/ ex.op = "idle" /\ MergeDuplicatesRequest("currentWindow")
    \/ DupListStep
    \/ DupCount
    \/ PreDiscard
    \/ DrainList
    \/ DrainIssue
    \/ DrainMove
    \/ DupUpdate
    \/ Respond
    \/ LiveFire(1)
    \/ LiveListStep
    \/ LiveDrainList
    \/ LiveDrainIssue
    \/ LiveDrainMove
    \/ LiveUpdate
    \/ LiveReturn

SpecMix == InitMix /\ [][NextMix]_vars

FamilyAll ==
    Family(Builds, { f \in OnePerGroup(MaxGroups) : \A t \in TabIds : t > MaxGroups => f[t] \in {2, NoGroup} },
           OneWindow,
           { f \in [GroupIds -> {<<>>, <<"A">>, <<"a">>, <<" ">>}] :
               /\ f[1] = <<"A">> /\ f[2] = <<"a">>
               /\ f[MaxGroups] = <<" ">>
               /\ \A g \in GroupIds : (g > 2 /\ g < MaxGroups) => f[g] \in {<<>>, <<"A">>} },
           { f \in AttrPatterns : f[1] = KActive /\ f[2] = KPending },
           { s \in AllSettings : s.autoMerge /\ ~s.caseSensitive /\ s.keepCollapsed },
           MaxFaults)

Init == FamilyAll

\* operations start one at a time
Quiet == ex.op = "idle" /\ lv.pc = "idle" /\ rd.pc = "idle"

\* the tabs that commit a URL: the one mid-navigation and a loaded one
CommitTabs == {2, 3}
SelFew == { <<>>, <<1, 2>>, <<2, 1>>, <<MaxGroups, 1, 2>> }

Next ==
    \/ Quiet /\ \E scope \in Scopes : MergeDuplicatesRequest(scope)
    \/ DupListStep
    \/ DupCount
    \/ PreDiscard
    \/ DrainList
    \/ DrainIssue
    \/ DrainMove
    \/ DupUpdate
    \/ Respond
    \/ Quiet /\ \E ids \in SelFew : MergeSelectedRequest(ListOf(ids), Undef)
    \/ SelGet
    \/ SelCount
    \/ SelSettings
    \/ SelUpdate
    \/ Quiet /\ \E w \in Windows : LiveFire(w)
    \/ LiveListStep
    \/ LiveDrainList
    \/ LiveDrainIssue
    \/ LiveDrainMove
    \/ LiveUpdate
    \/ LiveReturn
    \/ Quiet /\ \E t \in CommitTabs : TabCommitted(t)
    \/ RdGet
    \/ RdFindStep
    \/ RdMove
    \/ RdReturn

Spec == Init /\ [][Next]_vars

\* ------------------------------------------------------------ the state before a pass
PreTabs(s, g) == { t \in TabIds : s.tg[t] = g }
PreGroups(s) == { g \in GroupIds : PreTabs(s, g) # {} }
PreWin(s, g) == s.tw[CHOOSE t \in PreTabs(s, g) : TRUE]
PreKey(s, g, caseSensitive) == normalizeTitle(s.title[g], caseSensitive)

\* the groups that share g's window and g's normalized title in snapshot s
PreBucket(s, g, caseSensitive) ==
    { h \in PreGroups(s) : /\ PreWin(s, h) = PreWin(s, g)
                           /\ PreKey(s, h, caseSensitive) = PreKey(s, g, caseSensitive) }

PreCountSum(s, B) == SeqSum([i \in 1..MaxGroups |-> IF i \in B THEN Cardinality(PreTabs(s, i)) ELSE 0])

InScope(e, w) == e.scope = "allWindows" \/ w = e.cw

\* a mergeDuplicatesByName pass has ended and none of its host calls failed
DupPassDone == ex.op = "dup" /\ ex.pc = "done" /\ ex.ok /\ ex.clean

\* ------------------------------------------------------------ C1
\* C1: after a mergeDuplicatesByName pass without a failed host call, every
\* bucket of at least two groups of a window in the pass's scope (non-empty
\* key, or any key with includeUnnamed) has exactly one group left, and that
\* group holds the tabs of all the bucket's groups: its count is the sum of
\* the counts before the pass.
C1_OneGroupPerBucket ==
    DupPassDone =>
        \A g \in PreGroups(ex.pre) :
            LET B == PreBucket(ex.pre, g, ex.cs)
            IN ( /\ InScope(ex, PreWin(ex.pre, g))
                 /\ Cardinality(B) >= 2
                 /\ (ex.iu \/ PreKey(ex.pre, g, ex.cs) # <<>>) )
               => \E h \in B :
                    /\ { b \in B : Exists(b) } = {h}
                    /\ TabsIn(h) = UNION { PreTabs(ex.pre, b) : b \in B }
                    /\ Cardinality(TabsIn(h)) = PreCountSum(ex.pre, B)

\* a pass merged a bucket of three groups, one of them with two tabs
C1_Witness ==
    /\ DupPassDone
    /\ \E i \in 1..Len(ex.results) :
        /\ ex.results[i].mergedCount = 2
        /\ Cardinality(TabsIn(ex.results[i].mergedInto)) = 4

\* ------------------------------------------------------------ C3
\* a mergeDuplicatesByName pass that listed the groups exactly as the previous
\* pass left them, that pass having had no failed host call and the same
\* settings, scope and current window
SecondRun ==
    /\ ex.op = "dup" /\ ex.pc # "list"
    /\ last.op = "dup" /\ last.clean
    /\ ex.pre = last.snap
    /\ ex.cs = last.cs /\ ex.iu = last.iu /\ ex.fm = last.fm /\ ex.kc = last.kc
    /\ ex.scope = last.scope /\ ex.cw = last.cw

\* C3: the second of two mergeDuplicatesByName runs in a row (same settings,
\* nothing changed in between, no host failure in the first) requests no tab
\* move - it is over as soon as it has listed the groups - and returns an
\* empty result list.
C3_SecondRunIdle ==
    SecondRun => /\ ex.pc = "done"
                 /\ ex.moves = 0
                 /\ ex.results = <<>>
                 /\ ex.ok
                 /\ req.kind \notin {"move", "update", "discard"}

\* the second run follows a run that merged something
C3_Witness == SecondRun /\ last.results # <<>> /\ ex.results = <<>>

\* ------------------------------------------------------------ C6
NonEmptyTrimmed(groups) ==
    SelectSeq([i \in 1..Len(groups) |-> Trim(groups[i].title)], LAMBDA t : t # <<>>)
Frequency(titles, t) == Cardinality({ i \in 1..Len(titles) : titles[i] = t })
\* the first position of a title that no title of the sequence outnumbers
FirstMostFrequent(titles) ==
    CHOOSE i \in 1..Len(titles) :
        /\ \A j \in 1..Len(titles) : Frequency(titles, titles[j]) <= Frequency(titles, titles[i])
        /\ \A j \in 1..(i - 1) : Frequency(titles, titles[j]) < Frequency(titles, titles[i])

Work == <<"W", "o", "r", "k">>
work == <<"w", "o", "r", "k">>
WorkBucket == << [id |-> 1, title |-> Work, windowId |-> 1],
                 [id |-> 2, title |-> work, windowId |-> 1],
                 [id |-> 3, title |-> Work, windowId |-> 1] >>

\* C6: the title a mergeDuplicatesByName pass applies to the target of a
\* bucket is the most frequent of the bucket's non-empty trimmed titles, the
\* first in bucket order among equally frequent ones; and ["Work", "work",
\* "Work"] is one bucket of key "work" with final title "Work" when
\* caseSensitive is false.
C6_TitleConvergence ==
    /\ (req.kind = "update" /\ req.by = "dup" /\ req.ok /\ NonEmptyTrimmed(ex.bucket) # <<>>)
        => LET titles == NonEmptyTrimmed(ex.bucket)
           IN /\ gtitle[req.group] = titles[FirstMostFrequent(titles)]
              /\ ex.finalTitle = gtitle[req.group]
    /\ normalizeTitle(Work, FALSE) = work
    /\ BigBuckets(WorkBucket, FALSE, FALSE) = << [key |-> work, groups |-> WorkBucket] >>
    /\ TitleToSet(WorkBucket, Work) = Work

\* the target of a bucket titled "a", "A", "A" (in this order) was titled "A"
C6_Witness ==
    /\ req.kind = "update" /\ req.by = "dup" /\ req.ok
    /\ Len(ex.bucket) = 3
    /\ ex.bucket[1].title = <<"a">> /\ ex.bucket[2].title = <<"A">> /\ ex.bucket[3].title = <<"A">>
    /\ gtitle[req.group] = <<"A">>

\* ------------------------------------------------------------ C2
\* the host calls the service worker makes
HostCalls == {"none", "settings", "list", "get", "discard", "move", "update"}

\* C2: tab conservation. In every step of every operation, with host calls
\* failing or not: the tabs are the same tabs, each in one group or in none;
\* no tab that is in a group leaves it for no group; a batched move that
\* failed leaves every tab where it was; a move that succeeded changes the
\* group of the moved tabs only; no other host call changes the group of a
\* tab, and no call closes or ungroups a tab.
C2_Conservation ==
    [][ /\ DOMAIN tgroup' = TabIds
        /\ \A t \in TabIds : tgroup'[t] \in GroupIds \cup {NoGroup}
        /\ \A t \in TabIds : tgroup[t] # NoGroup => tgroup'[t] # NoGroup
        /\ req'.kind \in HostCalls
        /\ (req'.kind = "move" /\ ~req'.ok) => tgroup' = tgroup
        /\ (req'.kind = "move" /\ req'.ok)
            => \A t \in TabIds : tgroup'[t] = IF t \in req'.tabs THEN req'.group ELSE tgroup[t]
        /\ req'.kind # "move" => tgroup' = tgroup
      ]_vars

\* a batched move failed although its target exists, and its tabs are still
\* together in their source group
C2_Witness ==
    /\ req.kind = "move" /\ ~req.ok /\ Exists(req.group)
    /\ Cardinality(req.tabs) >= 2
    /\ \E g \in GroupIds \ {req.group} : req.tabs = TabsIn(g)

\* ------------------------------------------------------------ C4
Occurrences(s, x) == Cardinality({ i \in 1..Len(s) : s[i] = x })

\* C4: by-size target of mergeDuplicatesByName and mergeSelectedGroups: the
\* target is the first group, in bucket order, whose tab count is the largest
\* of the bucket, and the sources are all the other members of the bucket.
C4_LargestFirst ==
    (ex.op \in {"dup", "sel"} /\ ex.counts # <<>>) =>
        \E i \in 1..Len(ex.counts) :
            /\ ex.target = ex.counts[i].group
            /\ \A j \in 1..Len(ex.counts) : ex.counts[j].count <= ex.counts[i].count
            /\ \A j \in 1..(i - 1) : ex.counts[j].count < ex.counts[i].count
            /\ Len(ex.sources) = Len(ex.counts) - 1
            /\ \A g \in GroupIds :
                Occurrences(ex.sources, g) =
                    Occurrences([j \in 1..Len(ex.counts) |-> ex.counts[j].group.id], g)
                        - (IF g = ex.target.id THEN 1 ELSE 0)

\* the larger group was listed second and is the target; and a tie went to the
\* group listed first although its id is the larger one
C4_Witness ==
    /\ ex.op = "dup" /\ Len(ex.counts) = 2
    /\ ex.counts[1].count = ex.counts[2].count
    /\ ex.counts[1].group.id > ex.counts[2].group.id
    /\ ex.target = ex.counts[1].group

\* ------------------------------------------------------------ C5
\* C5: by-id target of recomputeAndDrainDuplicates: in every bucket the pass
\* works on (at least two groups) the target is the group of the smallest id,
\* whatever the listing order and the tab counts, and the sources are all the
\* other groups of the bucket.
C5_SmallestIdTarget ==
    lv.bucket # <<>> =>
        LET ids == { lv.bucket[i].id : i \in 1..Len(lv.bucket) }
        IN /\ Len(lv.bucket) >= 2
           /\ lv.target.id \in ids
           /\ \A g \in ids : lv.target.id <= g
           /\ Range(lv.sources) = ids \ {lv.target.id}
           /\ Len(lv.sources) = Len(lv.bucket) - 1

\* the target was not listed first and has fewer tabs than the source whose
\* tabs are about to be moved into it
C5_Witness ==
    /\ lv.pc = "move"
    /\ lv.bucket[1].id # lv.target.id
    /\ Cardinality(TabsIn(lv.target.id)) < Cardinality(lv.tabIds)

\* ------------------------------------------------------------ C7
\* an existing group whose normalized title is the empty string
Unnamed(g) == Exists(g) /\ normalizeTitle(gtitle[g], FALSE) = <<>>

\* the step is one of an operation that runs with includeUnnamed false
StepWithoutUnnamed ==
    \/ ex.op = "dup" /\ ~ex.iu /\ ex' # ex
    \/ lv.pc # "idle" /\ ~lv.iu /\ lv' # lv
    \/ rd.pc # "idle" /\ ~rd.iu /\ rd' # rd

\* C7: with includeUnnamed false, no step of mergeDuplicatesByName, of
\* recomputeAndDrainDuplicates or of the single-tab redirect moves a tab out
\* of or into an unnamed group, requests a discard of a tab of an unnamed
\* group, or updates an unnamed group.
C7_UnnamedUntouched ==
    [][ StepWithoutUnnamed =>
          /\ \A g \in GroupIds :
                Unnamed(g) => /\ { t \in TabIds : tgroup'[t] = g } = TabsIn(g)
                              /\ gtitle'[g] = gtitle[g]
                              /\ gcollapsed'[g] = gcollapsed[g]
          /\ req'.kind = "discard" => \A t \in req'.tabs : ~Unnamed(tgroup[t])
          /\ req'.kind \in {"move", "update"} => ~Unnamed(req'.group)
          /\ req'.kind = "move" => \A t \in req'.tabs : ~Unnamed(tgroup[t])
      ]_vars

\* a pass without includeUnnamed merged a bucket while two unnamed groups of
\* the same window stayed as they were
C7_Witness ==
    /\ DupPassDone /\ ~ex.iu /\ ex.results # <<>>
    /\ \E g, h \in GroupIds :
        /\ g # h /\ Unnamed(g) /\ Unnamed(h)
        /\ GroupWin(g) = GroupWin(h) /\ GroupWin(g) = ex.results[1].windowId
        /\ TabsIn(g) = PreTabs(ex.pre, g) /\ TabsIn(h) = PreTabs(ex.pre, h)

\* ------------------------------------------------------------ C8
\* mergeSelectedGroups was called with ids of groups of at least two windows
SelAcrossWindows ==
    /\ ex.op = "sel" /\ ex.isArray /\ Len(ex.ids) >= 2
    /\ \A i \in 1..Len(ex.ids) : ex.ids[i] \in PreGroups(ex.pre)
    /\ Cardinality({ PreWin(ex.pre, ex.ids[i]) : i \in 1..Len(ex.ids) }) >= 2

\* C8: mergeSelectedGroups on groups of two or more windows ends in a failure
\* and leaves the host as it was: no move, no discard, no update is requested.
C8_AcrossWindowsRefused ==
    SelAcrossWindows =>
        /\ ex.pc \in {"get", "done"}
        /\ Snap = ex.pre
        /\ req.kind \notin {"move", "discard", "update"}
        /\ ex.pc = "done" => /\ ~ex.ok
                             /\ ex.err = "For now, merge groups from one window at a time."

C8_Witness == SelAcrossWindows /\ ex.pc = "done" /\ ~ex.ok /\ Len(ex.ids) = 3

\* ------------------------------------------------------------ C9
\* C9: mergeSelectedGroups with fewer than two ids, or with groupIds that is
\* no array, fails before any host call: nothing is requested of the host and
\* the host is as it was.
C9_TooFewRefused ==
    (ex.op = "sel" /\ (~ex.isArray \/ Len(ex.ids) < 2)) =>
        /\ ex.pc = "done"
        /\ ~ex.ok /\ ex.err = "Select at least two groups."
        /\ req = NoReq
        /\ Snap = ex.pre

\* one id of an existing group was refused
C9_Witness ==
    /\ ex.op = "sel" /\ ex.pc = "done" /\ ~ex.ok
    /\ ex.isArray /\ Len(ex.ids) = 1 /\ Exists(ex.ids[1])

\* ------------------------------------------------------------ C10
\* C10: no discard is requested for a tab that is active or has no committed
\* URL (an empty or about:blank URL, or a pending URL).
C10_NoIneligibleDiscard ==
    req.kind = "discard" => \A t \in req.tabs : ~shouldAvoidDiscard(tattr[t])

\* ------------------------------------------------------------ C11
\* C11: the change events of a window of which each arrives while the timer
\* armed by the one before is still armed (a burst) start at most one
\* recomputeAndDrainDuplicates for that window.
C11_OneRunPerBurst ==
    \A w \in Windows : dt.burst[w].runs <= 1

\* a pass starts only when the delay of the last event of the burst has elapsed
C11_AfterLastDelay ==
    [][\A w \in Windows :
         dt'.burst[w].runs > dt.burst[w].runs => dt.burst[w].age >= dt.burst[w].need]_vars

\* both hold for src/background.js, whose listeners all schedule at once
C11_BackgroundJs ==
    /\ [](build = "bg" => C11_OneRunPerBurst)
    /\ [][build = "bg" =>
            \A w \in Windows :
                dt'.burst[w].runs > dt.burst[w].runs => dt.burst[w].age >= dt.burst[w].need]_vars

\* a burst of three events that mixed the two delays has started its one pass
C11_BurstOfThree ==
    \E w \in Windows : dt.burst[w].n = 3 /\ dt.burst[w].runs = 1 /\ dt.burst[w].need = DelayCreated

\* ------------------------------------------------------------ C18
\* C18: a window never has more than one armed debounce timer, and a step
\* that schedules leaves the armed timer of every window it did not schedule
\* for as it was.
C18_SingleSlot ==
    /\ [](\A w \in Windows : Cardinality(ArmedFor(dt, w)) <= 1)
    /\ [][dt'.made > dt.made =>
            \A w \in Windows :
                dt'.slot[w] = dt.slot[w] => ArmedFor(dt', w) = ArmedFor(dt, w)]_vars

\* window 1's first timer was replaced by a third while window 2's was armed
C18_Witness ==
    /\ dt.made = 3
    /\ { x.id : x \in ArmedFor(dt, 1) } = {3}
    /\ { x.id : x \in ArmedFor(dt, 2) } = {2}
    /\ \E x \in ArmedFor(dt, 2) : x.left < DelayDefault

\* ------------------------------------------------------------ C12
ListenersOf(event) == { l \in al.on : l.event = event }
TrackedEvents == AutoEvents \cup EarlyEvents

\* the debounce timers a step created: the timers made, less the deferred
\* discards among them
Schedulings ==
    (dt'.made - dt.made)
        - Cardinality({ x \in dt'.armed : x.kind = "discard" } \ dt.armed)

AutoMergeOff == ~stored.autoMerge /\ al.calls = 0 /\ ~al.cap[al.auto].enabled

\* C13: once autoMerge is stored false and the re-attachment has completed,
\* no step moves a tab between groups or updates a group's title or
\* collapsed flag.
C13_NothingWhenOff ==
    [][AutoMergeOff => UNCHANGED <<tgroup, gtitle, gcollapsed>>]_vars

\* the same, for the moves of one origin at a time
C13_NoLiveMoveWhenOff ==
    [][AutoMergeOff /\ req'.by = "live" => UNCHANGED <<tgroup, gtitle, gcollapsed>>]_vars
C13_NoRedirectWhenOff ==
    [][AutoMergeOff /\ req'.by = "redirect" => UNCHANGED <<tgroup, gtitle, gcollapsed>>]_vars
C13_NoEarlyMoveWhenOff ==
    [][AutoMergeOff /\ req'.by = "early" => UNCHANGED <<tgroup, gtitle, gcollapsed>>]_vars

\* ------------------------------------------------------------ C14
\* C14: in every step of every operation a tab that changes group goes into
\* a group of the window the tab is in, and no tab changes window.
C14_NoCrossWindowMove ==
    [][/\ req'.by # "user" => twin' = twin
       /\ \A t \in TabIds :
            tgroup'[t] # tgroup[t] =>
                /\ tgroup'[t] # NoGroup
                /\ Exists(tgroup'[t])
                /\ GroupWin(tgroup'[t]) = twin[t]]_vars

\* the same for part_001, and for src/background.js without its
\* early-discard listeners
C14_ExceptEarlyRedirect ==
    [][req'.by \notin {"user", "early"} =>
        /\ twin' = twin
        /\ \A t \in TabIds :
             tgroup'[t] # tgroup[t] =>
                 /\ tgroup'[t] # NoGroup
                 /\ Exists(tgroup'[t])
                 /\ GroupWin(tgroup'[t]) = twin[t]]_vars

\* an all-windows pass has merged the groups of each window: one group titled
\* "A" is left in window 1 and one in window 2
C14_Witness ==
    /\ last.op = "dup" /\ last.scope = "allWindows" /\ last.clean
    /\ Cardinality(ExistingGroups) = 2
    /\ \E g, h \in ExistingGroups :
        /\ GroupWin(g) = 1 /\ GroupWin(h) = 2
        /\ normalizeTitle(gtitle[g], FALSE) = normalizeTitle(gtitle[h], FALSE)

\* a single tab was redirected inside window 2 by the early-discard listener
C14_EarlyRedirected ==
    req.kind = "move" /\ req.by = "early" /\ req.ok /\ GroupWin(req.group) = 2

\* a single tab was redirected inside window 2 by onTabUpdated of part_001
C14_Redirected ==
    req.kind = "move" /\ req.by = "redirect" /\ req.ok /\ GroupWin(req.group) = 2

\* ------------------------------------------------------------ C19
\* the listings of mergeGroupSet that found tabs
WithTabs(listed) == SelectSeq(listed, LAMBDA l : l.tabs # {})

\* mergeGroupSet has returned
DrainOver ==
    /\ ex.op \in {"dup", "sel"} /\ ex.pc = AfterDrain(ex.op) /\ ex.ok
    /\ ex.sources # <<>>

C20_SequentialDraining ==
    /\ [](/\ Len(ex.pending) <= 1 /\ Len(lv.pending) <= 1
          /\ ex.pending # <<>> => ex.pc = "moving"
          /\ lv.pending # <<>> => lv.pc = "moving")
    /\ [][/\ (ex.pending # <<>> /\ req'.by \in {"dup", "sel"})
               => (req'.kind = "move" /\ ex'.pending = <<>>)
          /\ (lv.pending # <<>> /\ req'.by = "live")
               => (req'.kind = "move" /\ lv'.pending = <<>>)]_vars

\* the move of a second source is outstanding after the first one settled,
\* in mergeGroupSet; and the same in recomputeAndDrainDuplicates
C20_Witness ==
    \/ ex.pending # <<>> /\ ex.moves = 1 /\ Len(ex.asked) = 2
    \/ lv.pending # <<>> /\ lv.moves = 1

\* ------------------------------------------------------------ C17
\* mergeSelectedGroups has returned { ok: true, ... } for at least two
\* distinct groups and no host call of it failed
SelDone ==
    /\ ex.op = "sel" /\ ex.pc = "done" /\ ex.ok /\ ex.clean
    /\ Len(ex.ids) >= 2
    /\ Cardinality(Range(ex.ids)) = Len(ex.ids)

\* C17: after a mergeSelectedGroups on two or more distinct groups of one
\* window without host failure, the target had among the selected groups the
\* most tabs, it holds every tab of every selected group, the other selected
\* groups are gone, its title is the trimmed targetTitle if one was given and
\* else its own title trimmed, and the result carries its id and that title.
C17_SelectedMerged ==
    SelDone =>
        LET sel == Range(ex.ids)
            target == ex.target.id
            title == Trim(IF ex.targetTitle = Undef THEN ex.pre.title[target] ELSE ex.targetTitle)
        IN /\ target \in sel
           /\ \A g \in sel : Cardinality(PreTabs(ex.pre, g)) <= Cardinality(PreTabs(ex.pre, target))
           /\ TabsIn(target) = UNION { PreTabs(ex.pre, g) : g \in sel }
           /\ \A g \in sel \ {target} : ~Exists(g)
           /\ gtitle[target] = title
           /\ ex.finalTitle = title
           /\ ex.mergedCount = Len(ex.ids) - 1

\* three groups were merged under a given title that had to be trimmed
C17_Witness ==
    /\ SelDone
    /\ Len(ex.ids) = 3
    /\ ex.targetTitle = <<"b", " ">>
    /\ gtitle[ex.target.id] = <<"b">>

\* two groups were merged and the target kept its own title, trimmed
C17_OwnTitle ==
    /\ SelDone
    /\ ex.targetTitle = Undef
    /\ ex.pre.title[ex.target.id] = <<" ", "A">>
    /\ gtitle[ex.target.id] = <<"A">>

\* ------------------------------------------------------------ C16
\* C16: a message whose type is none of the five the router knows is answered
\* { ok: false, error: "Unknown message type." }, and the step that answers
\* it makes no host request, starts no operation and changes neither a tab's
\* group, a group's title or collapsed flag, nor the stored settings.
C16_UnknownTypeRefused ==
    [][(last' # last /\ last'.type \notin KnownTypes) =>
          /\ ~last'.ok
          /\ last'.err = "Unknown message type."
          /\ req'.kind = "none"
          /\ UNCHANGED <<host, stored, ex, al, dt>>]_vars

\* a message of unknown type was answered after a merge and a settings write
\* had changed the host and the settings
C16_Witness ==
    /\ last.type = "merge_duplicates" /\ ~last.ok
    /\ ops > 0
    /\ Cardinality(ExistingGroups) = 1
    /\ ~stored.fastMerge

\* ------------------------------------------------------------ C15
\* C15: a host call of mergeDuplicatesByName that fails because a group
\* vanished during the pass is never fatal: the pass ends having gone through
\* every bucket in scope and returns its result list, not a failure.
C15_NeverFatal ==
    (ex.op = "dup" /\ ex.pc = "done") => (ex.ok /\ ex.work = <<>>)

\* what holds: a rejected discard or a failed move of the pass is swallowed,
\* and the pass goes on
C15_DrainFailureSwallowed ==
    [][(req'.by = "dup" /\ req'.kind \in {"discard", "move"} /\ ~req'.ok) =>
          (ex'.ok /\ ex'.pc \in {"move", "drain", "update"})]_vars

\* a move of the pass failed on a vanished target and the pass went on
C15_MoveFailed ==
    /\ ex.op = "dup" /\ ex.ok /\ ~ex.clean /\ ex.pc = "update"
    /\ ~Exists(ex.target.id)
    /\ faults = MaxFaults

\* the update failed on a vanished target with a bucket left to merge
C15_UpdateFatal ==
    /\ ex.op = "dup" /\ ex.pc = "done" /\ ~ex.ok
    /\ Len(ex.work) = 2
    /\ Exists(3) /\ Exists(4)

\* ------------------------------------------------------------ C21
\* the tabs the target had when the operation began
TargetTabs == { t \in TabIds : ex.pre.tg[t] = ex.target.id }

\* C21: when the source that mergeGroupSet comes to is the target itself, the
\* step lists nothing, discards nothing, moves nothing and raises no error,
\* and goes on to the next source; no move of the operation ever names a tab
\* the target had when the operation began.
C21_SelfMergeGuard ==
    /\ [](ex.op = "sel" =>
            \A i \in 1..Len(ex.asked) : ex.asked[i].tabs \cap TargetTabs = {})
    /\ [][(ex.op = "sel" /\ ex.pc = "drain" /\ Head(ex.others) = ex.target.id /\ ex' # ex) =>
            /\ req'.kind = "none"
            /\ UNCHANGED host
            /\ ex'.ok /\ ex'.clean = ex.clean
            /\ ex'.others = Tail(ex.others)
            /\ ex'.listed = ex.listed /\ ex'.asked = ex.asked /\ ex'.pending = ex.pending
            /\ ex'.pc = NextSource(ex)]_vars

\* a selection naming the same group twice was merged: the guard passed over
\* the target, and the operation returned ok with the target's tabs in place
C21_Witness ==
    /\ ex.op = "sel" /\ ex.pc = "done" /\ ex.ok
    /\ ex.ids = <<2, 2>>
    /\ ex.target.id = 2 /\ ex.sources = <<2>> /\ ex.others = <<>>
    /\ ex.asked = <<>>
    /\ TabsIn(2) = TargetTabs /\ TargetTabs # {}

\* ------------------------------------------------------------ C22
\* the ids of the groups of a listing whose normalized title is the key
BucketIds(listing, key, caseSensitive) ==
    { listing[i].id : i \in { j \in 1..Len(listing) : normalizeTitle(listing[j].title, caseSensitive) = key } }

WellFormedEntry(e, listing, caseSensitive, includeUnnamed) ==
    LET ids == BucketIds(listing, e.key, caseSensitive)
    IN /\ Cardinality(ids) >= 2
       /\ includeUnnamed \/ e.key # <<>>
       /\ e.target \in ids
       /\ \A g \in ids : e.target <= g
       /\ \A i \in 1..Len(e.others) : e.others[i] # e.target
       /\ Range(e.others) = ids \ {e.target}
       /\ Len(e.others) = Cardinality(ids) - 1

\* C22: whenever recomputeAndDrainDuplicates stores the index of a window,
\* every entry is for a bucket of at least two groups of the pass's listing,
\* its target is the smallest id of that bucket, its source list is exactly
\* the rest of the bucket and does not hold the target, and there is one
\* entry per key.
C22_IndexWellFormed ==
    [][dupTargets' # dupTargets =>
          /\ \A e \in dupTargets'[lv.w] : WellFormedEntry(e, lv.listing, lv.cs, lv.iu)
          /\ \A e, f \in dupTargets'[lv.w] : e.key = f.key => e = f
          /\ \A w \in Windows : w # lv.w => dupTargets'[w] = dupTargets[w]]_vars

\* a pass over a bucket of three groups has stored its entry
C22_Witness ==
    /\ lv.pc = "done" /\ lv.ok
    /\ dupTargets[lv.w] = lv.index
    /\ \E e \in lv.index : e.target = 1 /\ e.others = <<2, 3>>
    /\ Len(lv.listing) = 3 /\ lv.listing[1].id = 3

\* ------------------------------------------------------------ C27
\* a recomputeAndDrainDuplicates pass has ended and none of its host calls failed
LivePassDone == lv.pc = "done" /\ lv.ok /\ lv.clean

\* the groups of the pass's window when it listed them
LiveGroups == { g \in PreGroups(lv.pre) : PreWin(lv.pre, g) = lv.w }

\* the pass counts the key: it is not empty, or includeUnnamed is on
LiveCounts(key) == lv.iu \/ key # <<>>

\* the pass had nothing to merge: no two groups of its window shared a key
NothingToMerge ==
    \A g \in LiveGroups :
        LiveCounts(PreKey(lv.pre, g, lv.cs)) => PreBucket(lv.pre, g, lv.cs) = {g}

\* C27: after a recomputeAndDrainDuplicates pass without a failed host call,
\* every bucket of at least two groups of the window has exactly one group
\* left, the one of the smallest id, holding the tabs of all the bucket's
\* groups, so that no two groups of the window share a key any more; and a
\* pass that lists a window where no two groups share a key is over with its
\* listing: it requests no move, no discard and no group update.
C27_ReentrantDrain ==
    /\ [](LivePassDone =>
         /\ \A g \in LiveGroups :
              LET B == PreBucket(lv.pre, g, lv.cs)
                  h == CHOOSE b \in B : \A c \in B : b <= c
              IN (Cardinality(B) >= 2 /\ LiveCounts(PreKey(lv.pre, g, lv.cs))) =>
                    /\ { b \in B : Exists(b) } = {h}
                    /\ TabsIn(h) = UNION { PreTabs(lv.pre, b) : b \in B }
         /\ \A g, h \in { x \in ExistingGroups : GroupWin(x) = lv.w } :
              (g # h /\ LiveCounts(normalizeTitle(gtitle[g], lv.cs))) =>
                    normalizeTitle(gtitle[g], lv.cs) # normalizeTitle(gtitle[h], lv.cs))
    /\ []((lv.pc \notin {"idle", "list"} /\ NothingToMerge) =>
            (lv.pc = "done" /\ lv.ok /\ lv.moves = 0 /\ lv.pending = <<>>))
    /\ [][(lv' # lv /\ lv'.pc \notin {"idle", "list"} /\ NothingToMerge') =>
            (req'.kind = "list" /\ dupTargets'[lv'.w] = {} /\ UNCHANGED host)]_vars

\* the second of two passes in a row: the first merged three groups into
\* group 1, the second listed that one group and is over without a request
C27_Witness ==
    /\ LivePassDone /\ NothingToMerge
    /\ ops = 2 /\ rd.pc = "idle"
    /\ lv.moves = 0
    /\ Len(lv.listing) = 1 /\ lv.listing[1].id = 1
    /\ {1, 2, 3} \subseteq TabsIn(1)

\* a pass has just merged a bucket of three groups
C27_Merged ==
    /\ LivePassDone /\ lv.moves = 2
    /\ dupTargets[lv.w] # {}
    /\ {1, 2, 3} \subseteq TabsIn(1)

\* ------------------------------------------------------------ C23
\* the index computed from the listing of the pass
ComputedIndex ==
    LET items == LiveWork(lv.listing, lv.cs, lv.iu)
    IN { IndexEntry(items[i]) : i \in 1..Len(items) }

\* C23: every recomputeAndDrainDuplicates pass, one with a host call that
\* failed on a vanished group included, ends with the index of its window
\* replaced by the index computed from its own listing.
C23_RebuiltEveryPass ==
    lv.pc = "done" => dupTargets[lv.w] = ComputedIndex

\* what holds: a pass that returns, not throws, has stored its index
C23_RebuiltOnReturn ==
    (lv.pc = "done" /\ lv.ok) => dupTargets[lv.w] = ComputedIndex

\* a pass threw on its vanished target, and the entry of the pass before,
\* naming a source that no longer exists, is still the window's index
C23_EarlierEntrySurvives ==
    /\ lv.pc = "done" /\ ~lv.ok /\ ~Exists(lv.target.id)
    /\ ComputedIndex = { [key |-> <<"a">>, target |-> 1, others |-> <<3>>] }
    /\ dupTargets[lv.w] = { [key |-> <<"a">>, target |-> 1, others |-> <<2>>] }

\* ------------------------------------------------------------ C26
\* C26: the update call of a recomputeAndDrainDuplicates pass changes no
\* group's title, also when the target was renamed between the pass's
\* listing and the call.
C26_TitleKept ==
    [][(lv.pc = "update" /\ lv' # lv) => gtitle' = gtitle]_vars

\* what holds: the update changes no title when the target still has the
\* title the pass listed
C26_TitleKeptUnlessRenamed ==
    [][(lv.pc = "update" /\ lv' # lv /\ gtitle[lv.target.id] = lv.target.title) =>
          gtitle' = gtitle]_vars

\* ------------------------------------------------------------ C24
\* the groups of window w whose normalized title is that of the given title
SameKey(w, title, caseSensitive) ==
    { g \in ExistingGroups :
        GroupWin(g) = w /\ normalizeTitle(gtitle[g], caseSensitive) = normalizeTitle(title, caseSensitive) }

\* the step is the one on which findDuplicateTargetGroup returns
FindReturns == rd.pc \in {"get", "find"} /\ rd'.pc \in {"move", "done"} /\ rd'.ok

\* C24: findDuplicateTargetGroup(windowId, title, settings) returns the
\* smallest id among the groups of the window whose normalized title equals
\* the normalized given title when there are at least two of them, and no
\* target when there are fewer or when the key is empty and includeUnnamed is
\* off; it changes nothing in the host, the settings or the index.
C24_FindSmallestId ==
    [][FindReturns =>
          LET same == SameKey(rd'.w, rd'.title, rd'.cs)
          IN /\ rd'.target =
                  IF ~rd'.iu /\ normalizeTitle(rd'.title, rd'.cs) = <<>> THEN NoGroup
                  ELSE IF Cardinality(same) < 2 THEN NoGroup
                  ELSE CHOOSE g \in same : \A h \in same : g <= h
             /\ UNCHANGED <<host, stored, dupTargets, attached, lv, ex>>]_vars

\* the lookup for a tab of group 3 found group 1, which the host listed last
C24_Witness ==
    /\ rd.pc = "move" /\ rd.groupId = 3 /\ rd.target = 1
    /\ Len(rd.listing) = 3 /\ rd.listing[3].id = 1
    /\ Cardinality(SameKey(rd.w, rd.title, rd.cs)) = 3

\* the lookup found fewer than two groups of the title and returned no target
C24_NoTarget ==
    /\ rd.pc = "done" /\ rd.ok /\ rd.target = NoGroup
    /\ Len(rd.listing) = 3
    /\ SameKey(rd.w, rd.title, rd.cs) = {rd.groupId}

\* ------------------------------------------------------------ C25
\* C25: moveTabToDuplicateTargetIfAny is begun for a grouped tab only; it
\* requests the group, the listing and at most one move, the move being of
\* the given tab alone, into the target findDuplicateTargetGroup returned,
\* and only when that target exists and is not the group the tab was given
\* with; a failed lookup or move ends it without an error to its caller,
\* which goes on to handler(windowId).
C25_AtMostOneMove ==
    /\ [](rd.pc = "move" => (rd.target # NoGroup /\ rd.target # rd.groupId))
    /\ [][(rd.pc = "idle" /\ rd'.pc # "idle") =>
             (rd'.groupId # NoGroup /\ tgroup[rd'.tab] = rd'.groupId)]_vars
    /\ [][(rd' # rd /\ rd.pc # "idle") =>
             /\ req'.kind \in {"get", "list", "move", "none"}
             /\ req'.kind = "move" =>
                  /\ rd.pc = "move" /\ rd'.pc = "done"
                  /\ req'.tabs = {rd.tab} /\ req'.group = rd.target
             /\ req'.kind # "move" => UNCHANGED host
             /\ ~req'.ok => (rd'.pc = "done" /\ UNCHANGED host)
             /\ rd.pc = "done" => (rd' = IdleRd /\ req'.kind = "none")]_vars

\* the one tab was moved to the target and the redirect is over
C25_Witness ==
    /\ rd.pc = "done" /\ rd.ok /\ rd.target = 1 /\ rd.groupId = 3
    /\ req = Req("move", "redirect", {rd.tab}, 1, TRUE)
    /\ tgroup[rd.tab] = 1
    /\ lv.pc = "idle"

\* C25 as stated: a move is requested only when the target is not the group
\* the tab is in
C25_NotTheTabsGroupNow ==
    rd.pc = "move" => tgroup[rd.tab] # rd.target

\* ------------------------------------------------------------ C29
\* when the pass listed the groups, g was alone in its bucket
AloneInBucket(g) == PreBucket(ex.pre, g, ex.cs) = {g}
\* when the pass listed the groups, g was unnamed and unnamed groups are left out
ExcludedUnnamed(g) == ~ex.iu /\ PreKey(ex.pre, g, ex.cs) = <<>>

\* group g is as it was when the pass listed the groups
Untouched(g) ==
    /\ TabsIn(g) = PreTabs(ex.pre, g)
    /\ gtitle[g] = ex.pre.title[g]
    /\ gcollapsed[g] = ex.pre.coll[g]
    /\ (req.by = "dup" /\ req.kind \in {"discard", "move", "update"}) =>
          (req.tabs \cap PreTabs(ex.pre, g) = {} /\ req.group # g)

\* C29: through a mergeDuplicatesByName pass, a group that was alone in its
\* bucket, or unnamed with includeUnnamed off, keeps its tabs, its title and
\* its collapsed flag, and no discard, move or update of the pass names it or
\* one of its tabs.
C29_FrameOfMerge ==
    (ex.op = "dup" /\ ex.pc # "list") =>
        \A g \in PreGroups(ex.pre) : (AloneInBucket(g) \/ ExcludedUnnamed(g)) => Untouched(g)

\* a pass merged a bucket and passed over a group alone in its bucket, whose
\* title has blanks that a normalization would have trimmed
C29_Witness ==
    /\ DupPassDone /\ ex.results # <<>>
    /\ \E g \in PreGroups(ex.pre) :
          /\ AloneInBucket(g) /\ ~ExcludedUnnamed(g)
          /\ gtitle[g] = <<" ", "A">>
          /\ Untouched(g)

\* a pass merged a bucket and passed over an unnamed group
C29_UnnamedLeft ==
    /\ DupPassDone /\ ex.results # <<>>
    /\ \E g \in PreGroups(ex.pre) : ExcludedUnnamed(g) /\ Untouched(g) /\ Exists(g)

\* ------------------------------------------------------------ C30
\* C30: every operation runs with the settings stored when it starts: a
\* recomputeAndDrainDuplicates pass begun by a debounce timer has the stored
\* caseSensitive, includeUnnamed, fastMerge and keepCollapsed, and a
\* single-tab redirect the stored caseSensitive and includeUnnamed.
C30_FreshSettings ==
    [][/\ (lv.pc = "idle" /\ lv'.pc = "list") =>
             /\ lv'.cs = stored.caseSensitive /\ lv'.iu = stored.includeUnnamed
             /\ lv'.fm = stored.fastMerge /\ lv'.kc = stored.keepCollapsed
       /\ (rd.pc = "idle" /\ rd'.pc = "get") =>
             (rd'.cs = stored.caseSensitive /\ rd'.iu = stored.includeUnnamed)
       /\ (er.pc = "idle" /\ er'.pc = "get") => er'.cs = stored.caseSensitive]_vars

\* what holds: the explicit operations read the settings when they start,
\* MERGE_SELECTED when it comes to its update
C30_ExplicitFresh ==
    [][/\ (ex.op = "idle" /\ ex'.op = "dup") =>
             /\ ex'.cs = stored.caseSensitive /\ ex'.iu = stored.includeUnnamed
             /\ ex'.fm = stored.fastMerge /\ ex'.kc = stored.keepCollapsed
       /\ (ex.pc = "selsettings" /\ ex'.pc = "selupdate") =>
             (ex'.fm = stored.fastMerge /\ ex'.kc = stored.keepCollapsed)]_vars

\* a pass runs with fastMerge on after fastMerge was switched off and the
\* listeners were attached anew
C30_StalePass ==
    /\ lv.pc = "list" /\ lv.fm
    /\ ~stored.fastMerge /\ ~attached.fastMerge
    /\ al.calls = 0

\* ------------------------------------------------------------ C28
\* an event of window w waits for its pass: a debounce timer of the window is
\* armed, or part_001's onTabUpdated is in its await before handler(windowId)
Awaiting(w) ==
    \/ ArmedFor(dt, w) # {}
    \/ rd.pc # "idle" /\ rd.w = w /\ Schedules(rd.gens)

\* a pass for window w has begun and no timer of the window is armed any more
PassBegun(w) == lv.pc = "list" /\ lv.w = w /\ ArmedFor(dt, w) = {}

\* C28: with auto-merge on, every change event of a window is followed by a
\* recomputeAndDrainDuplicates pass for that window that begins after the
\* event, once events stop arriving; and the pass's listing is the window's
\* groups as they are when the pass lists them.
C28_EventThenPass ==
    /\ \A w \in Windows : Awaiting(w) ~> PassBegun(w)
    /\ [][(lv.pc = "list" /\ lv'.pc # "list") =>
            { lv'.listing[i] : i \in 1..Len(lv'.listing) } =
                { GroupRec(g) : g \in { x \in ExistingGroups : GroupWin(x) = lv.w } }]_vars

\* a pass for window 1 has listed the groups after the user ungrouped group
\* 2 while the timer was armed: group 2 is not in the listing
C28_Witness ==
    /\ lv.pc = "done" /\ lv.w = 1
    /\ dt.burst[1].n >= 1 /\ dt.burst[1].runs = 1
    /\ ~Exists(2)
    /\ Len(lv.listing) = 1 /\ lv.listing[1].id = 1

\* ------------------------------------------------------------ C33
\* mergeSelectedGroups has returned { ok: true, ... }
SelSucceeded == ex.op = "sel" /\ ex.pc = "done" /\ ex.ok

\* C33: mergeSelectedGroups returns ok only for a selection of at least two
\* distinct groups, and then mergedCount is the number of distinct selected
\* groups other than the target.
C33_DistinctCount ==
    SelSucceeded =>
        /\ Cardinality(Range(ex.ids)) >= 2
        /\ ex.mergedCount = Cardinality(Range(ex.ids) \ {ex.target.id})

\* for a selection without repeated ids the count is right
C33_CountOfDistinctSelection ==
    SelSucceeded /\ Cardinality(Range(ex.ids)) = Len(ex.ids) =>
        /\ Len(ex.ids) >= 2
        /\ ex.mergedCount = Cardinality(Range(ex.ids) \ {ex.target.id})

\* the selection [2, 2] was answered ok with mergedCount 1 and changed no
\* tab's group
C33_RepeatedReported ==
    /\ SelSucceeded /\ ex.ids = <<2, 2>>
    /\ ex.mergedCount = 1 /\ ex.target.id = 2
    /\ tgroup = ex.pre.tg

\* ------------------------------------------------------------ C34
\* the fastMerge value the operation making the request of this step runs
\* with: the parameter of mergeDuplicatesByName, the value mergeSelectedGroups
\* read, the value the timer's closure or the listener captured
FastMergeInEffect ==
    CASE req'.by \in {"dup", "sel"} -> ex.fm
      [] req'.by = "live" -> lv.fm
      [] req'.by = "created" ->
            \E x \in dt.armed \ dt'.armed : x.kind = "discard" /\ x.c.fastMerge
      [] req'.by = "early" ->
            /\ \E l \in al.on : l.role = "early"
            /\ \A l \in al.on : l.role = "early" => al.cap[l.gen].fastMerge
      [] OTHER -> FALSE

\* C34: an operation whose fastMerge is false requests no discard: every
\* discard request is made by an explicit merge, a selected merge, a live
\* drain or a group-created, tab-created or tab-updated handler whose
\* fastMerge in effect is true.
C34_NoDiscardWhenOff ==
    [][req'.kind = "discard" => FastMergeInEffect]_vars

\* a MERGE_DUPLICATES pass with fastMerge off has moved tabs, the last request
\* being the update
C34_Witness ==
    /\ ex.op = "dup" /\ ex.pc = "done" /\ ex.ok /\ ~ex.fm
    /\ tgroup # ex.pre.tg
    /\ req.kind = "update"

\* a live pass with fastMerge off has moved tabs
C34_LiveWithout == lv.pc = "done" /\ ~lv.fm /\ lv.ok /\ tgroup # lv.pre.tg

\* a selected merge with fastMerge off has moved tabs
C34_SelectedWithout ==
    ex.op = "sel" /\ ex.pc = "done" /\ ex.ok /\ ~ex.fm /\ tgroup # ex.pre.tg

\* the debounce timer of a group-created event is armed and no deferred
\* discard is, the listener's fastMerge being off
C34_CreatedWithout ==
    /\ build = "bg" /\ ~attached.fastMerge /\ al.made = 1
    /\ \E x \in dt.armed : x.kind = "recompute" /\ x.left = DelayCreated
    /\ \A x \in dt.armed : x.kind # "discard"

\* a discard is requested while the stored fastMerge and the one the current
\* listeners captured are off: the request is that of a closure armed before
\* the setting was switched
C34_StaleDiscard ==
    /\ req.kind = "discard"
    /\ ~stored.fastMerge /\ ~attached.fastMerge /\ al.calls = 0

\* ------------------------------------------------------------ C32
\* this step requests a single-tab move of a live handler: the early
\* redirect of src/background.js or moveTabToDuplicateTargetIfAny of part_001
RedirectMove == req'.kind = "move" /\ req'.by \in {"early", "redirect"}

\* the caseSensitive the handler normalizes with
RedirectCs == IF req'.by = "early" THEN er.cs ELSE rd.cs

\* the target exists and has the key of the group the tab is in, as the host
\* is when the move is requested
TargetSound ==
    /\ Exists(req'.group)
    /\ \A t \in req'.tabs :
        /\ tgroup[t] # NoGroup
        /\ normalizeTitle(gtitle[req'.group], RedirectCs) =
               normalizeTitle(gtitle[tgroup[t]], RedirectCs)

\* C32: whenever a live handler requests a single-tab move into a duplicate
\* target, the target exists at that moment and its normalized title is that
\* of the group the tab is leaving.
C32_RedirectSound ==
    [][RedirectMove => TargetSound]_vars

\* the early redirect of src/background.js has moved tab 3 out of its group
\* titled "A" into group 1, the target of the stored index, which the user
\* renamed "b" after the pass that stored it
C32_MovedToRenamedTarget ==
    /\ build = "bg"
    /\ req = Req("move", "early", {3}, 1, TRUE)
    /\ tgroup[3] = 1 /\ gtitle[1] = <<"b">>
    /\ \E e \in dupTargets[1] : e.key = <<"a">> /\ e.target = 1

\* the early redirect asked for a move into a target of the stored index
\* that no longer exists
C32_TargetGone ==
    /\ build = "bg"
    /\ req.kind = "move" /\ req.by = "early" /\ ~req.ok
    /\ ~Exists(req.group)
    /\ \E e \in dupTargets[1] : e.target = req.group

\* part_001: the target found by the listing was ungrouped before the move
\* was requested
C32_FoundTargetGone ==
    /\ build = "p1"
    /\ req.kind = "move" /\ req.by = "redirect" /\ ~req.ok
    /\ ~Exists(req.group)

\* part_001: when findDuplicateTargetGroup returns a target, it exists and
\* has the key of the title read for the tab's group
C32_SoundWhenFound ==
    [][(rd.pc = "find" /\ rd'.pc = "move") =>
          /\ Exists(rd'.target)
          /\ normalizeTitle(gtitle[rd'.target], rd.cs) = normalizeTitle(rd.title, rd.cs)]_vars

\* ------------------------------------------------------------ C31
\* a mergeDuplicatesByName pass and a recomputeAndDrainDuplicates pass of the
\* same window have both run to their end, neither having thrown
BothPassesDone ==
    /\ ex.op = "dup" /\ ex.pc = "done" /\ ex.ok /\ ex.cw = 1
    /\ lv.pc = "done" /\ lv.ok /\ lv.w = 1

\* the two passes overlapped: each listed the groups before the other moved
\* a tab
Interleaved == ex.pre.tg = lv.pre.tg /\ ex.pre.tg # tgroup

\* every bucket of at least two groups in the snapshot s has one group left,
\* holding all the bucket's tabs
Collapsed(s) ==
    \A g \in PreGroups(s) :
        LET B == PreBucket(s, g, FALSE)
        IN (Cardinality(B) >= 2 /\ PreKey(s, g, FALSE) # <<>>)
             => \E h \in B :
                  /\ { b \in B : Exists(b) } = {h}
                  /\ TabsIn(h) = UNION { PreTabs(s, b) : b \in B }

\* C31: when an explicit mergeDuplicatesByName pass and a live
\* recomputeAndDrainDuplicates pass of the same window have interleaved and
\* both have completed, every duplicate bucket either of them listed has
\* collapsed to one group holding all the bucket's tabs.
C31_BothCollapse ==
    BothPassesDone => Collapsed(ex.pre) /\ Collapsed(lv.pre)

\* with two groups in the bucket the interleaved passes do collapse it
C31_TwoGroupsCollapse ==
    (BothPassesDone /\ Cardinality(PreGroups(ex.pre)) <= 2 /\ Cardinality(PreGroups(lv.pre)) <= 2)
        => Collapsed(ex.pre) /\ Collapsed(lv.pre)

\* both passes listed groups 1 {1}, 2 {2} and 3 {3, 4}, both have completed
\* with every update accepted, and two groups titled "A" are left: group 1
\* with tabs 2, 3, 4 and group 3 with tab 1
C31_SplitLeft ==
    /\ BothPassesDone /\ Interleaved
    /\ ex.clean /\ lv.clean
    /\ tgroup = <<3, 1, 1, 1, NoGroup>>
    /\ gtitle[1] = <<"A">> /\ gtitle[3] = <<"A">>

\* the interleaved passes have collapsed a bucket of two groups
C31_TwoCollapsed ==
    /\ BothPassesDone /\ Interleaved
    /\ Cardinality(PreGroups(ex.pre)) = 2
    /\ Collapsed(ex.pre)

====
